---------------------------- MODULE Spec2Model ----------------------------
(***************************************************************************)
(* A model of rust-jni's safety layer over the JNI function table:         *)
(*   - JValue and its into_X conversions        (src/src/types/value.rs)   *)
(*   - the smart handles, ids and casts         (src/src/types/object.rs)  *)
(*   - the descriptor mangler                   (src/src/mangling.rs)      *)
(*   - the per-kind call / field dispatch       (src/src/env.rs)           *)
(*   - the primitive array operations           (src/src/env.rs)           *)
(*   - the result-code operations and id lookups (src/src/env.rs)          *)
(* The Java runtime behind the function table is the environment: its      *)
(* entries return values drawn from small sets and may leave an exception  *)
(* pending.                                                                *)
(*                                                                         *)
(* Rust values are written as follows.  Result<T> is Ok(v) or Err(e), a    *)
(* panic is Panic(msg).  Option<T> is a sequence of length 0 or 1.  A      *)
(* Rust string that the code parses is a sequence of one-character         *)
(* strings; messages are plain strings.  A raw pointer is a natural        *)
(* number, NULL being 0.                                                   *)
(***************************************************************************)
EXTENDS Integers, Sequences, FiniteSets, TLC

VARIABLES
    jv,        \* the JValue a conversion is applied to
    conv,      \* the last into_X conversion and its result
    exc,       \* the runtime's pending-exception flag
    last,      \* the last dispatch operation and its outcome
    live,      \* the smart handles the caller owns
    castOp,    \* the last constructor or cast and its outcome
    arrays,    \* the runtime's primitive arrays, by array pointer
    bufs,      \* the runtime's element buffers, by buffer pointer
    slices,    \* the array slices the caller holds
    arrOp,     \* the last array operation and its outcome
    codeOp,    \* the last result-code operation and its outcome
    lookup,    \* the last method / field lookup and its outcome
    reflected, \* the last reflection conversion and its outcome
    mangleOp,  \* the descriptor handed to the mangler and what came of it
    occurred,  \* the throwable pending in the runtime, NULL when none is
    excOp,     \* the last exception operation and its outcome
    strOp      \* the last string read and its outcome

valueVars == <<jv, conv>>

dispatchVars == <<exc, last>>

castVars == <<live, castOp>>

arrayVars == <<arrays, bufs, slices, arrOp>>

codeVars == <<codeOp>>

lookupVars == <<lookup, reflected>>

mangleVars == <<mangleOp>>

excVars == <<occurred, excOp>>

strVars == <<strOp>>

vars ==
    <<jv, conv, exc, last, live, castOp, arrays, bufs, slices, arrOp,
      codeOp, lookup, reflected, mangleOp, occurred, excOp, strOp>>

---------------------------------------------------------------------------
(* Result, Option, Error  (src/src/error.rs) *)

JNI_ERR == -1

NULL == 0

Ok(v) == [status |-> "Ok", val |-> v]

Err(e) == [status |-> "Err", err |-> e]

Panic(m) == [status |-> "Panic", msg |-> m]

None == <<>>

Some(x) == <<x>>

\* Error::new
Error_new(msg, code) == [variant |-> "General", msg |-> msg, code |-> code]

\* Error::new_null
Error_new_null(ctx) == [variant |-> "NullPointer", ctx |-> ctx]

IsOk(r) == r.status = "Ok"

IsErr(r) == r.status = "Err"

IsPanic(r) == r.status = "Panic"

---------------------------------------------------------------------------
(* JValue  (src/src/types/value.rs) *)

\* The pointers the model draws from; 0 is the null pointer.
MaxPtr == 2

Ptrs == 1..MaxPtr

\* The nine arms of JValue.
JValueArms ==
    {"Bool", "Byte", "Char", "Short", "Int", "Long", "Float", "Double", "Object"}

\* A JObject smart handle of the given kind around a pointer.
Handle(kind, ptr) == [kind |-> kind, backing_ptr |-> ptr]

\* Payloads each arm is drawn from (a Rust char is never a surrogate).
Payloads(arm) ==
    CASE arm = "Bool"   -> BOOLEAN
      [] arm = "Byte"   -> {-128, 1, 127}
      [] arm = "Char"   -> {0, 65, 65535}
      [] arm = "Short"  -> {-32768, 1, 32767}
      [] arm = "Int"    -> {-2147483647, 0, 1}
      [] arm = "Long"   -> {-2147483647, 2, 2147483647}
      [] arm = "Float"  -> {0, 1}
      [] arm = "Double" -> {0, 1}
      [] arm = "Object" -> {None} \cup {Some(Handle("JObject", p)) : p \in Ptrs}

JValue(arm, v) == [arm |-> arm, val |-> v]

into_obj(v) ==
    IF v.arm = "Object" THEN Ok(v.val)
    ELSE Err(Error_new("JValue isn't an object", JNI_ERR))

into_bool(v) ==
    IF v.arm = "Bool" THEN Ok(v.val)
    ELSE Err(Error_new("JValue isn't a boolean", JNI_ERR))

into_byte(v) ==
    IF v.arm = "Byte" THEN Ok(v.val)
    ELSE Err(Error_new("JValue isn't a byte", JNI_ERR))

into_char(v) ==
    IF v.arm = "Char" THEN Ok(v.val)
    ELSE Err(Error_new("JValue isn't a char", JNI_ERR))

into_short(v) ==
    IF v.arm = "Short" THEN Ok(v.val)
    ELSE Err(Error_new("JValue isn't a short", JNI_ERR))

\* into_int reading a Bool as 0 or 1.
into_int_coercing(v) ==
    IF v.arm = "Int" THEN Ok(v.val)
    ELSE IF v.arm = "Bool" THEN Ok(IF v.val THEN 1 ELSE 0)
    ELSE Err(Error_new("JValue isn't an integer", JNI_ERR))

into_int(v) ==
    IF v.arm = "Int" THEN Ok(v.val)
    ELSE Err(Error_new("JValue isn't an integer", JNI_ERR))

into_long(v) ==
    IF v.arm = "Long" THEN Ok(v.val)
    ELSE Err(Error_new("JValue isn't a long", JNI_ERR))

into_float(v) ==
    IF v.arm = "Float" THEN Ok(v.val)
    ELSE Err(Error_new("JValue isn't a float", JNI_ERR))

into_double(v) ==
    IF v.arm = "Double" THEN Ok(v.val)
    ELSE Err(Error_new("JValue isn't a double", JNI_ERR))

---------------------------------------------------------------------------
(* JType, JMethodID, JFieldID  (src/src/types/jtype.rs, object.rs) *)

JType ==
    {"Object", "Boolean", "Byte", "Char", "Short", "Int", "Long", "Float",
     "Double", "Void"}

JNonVoidType == JType \ {"Void"}

JNativeType == JType \ {"Object", "Void"}

\* A constructor that wraps whatever pointer it is given.
smart_new_unchecked(kind, ptr) == Ok(Handle(kind, ptr))

\* smart_obj!'s new: a handle of the given kind, or a NullPointer error.
smart_new(kind, ptr) ==
    IF ptr = NULL THEN Err(Error_new_null(kind))
    ELSE Ok(Handle(kind, ptr))

JMethodID_new(id, ret, num_args) ==
    IF id = NULL THEN Err(Error_new_null("JMethodID"))
    ELSE Ok([real_id |-> id, ret_type |-> ret, num_args |-> num_args])

JFieldID_new(id, ty) ==
    IF id = NULL THEN Err(Error_new_null("JFieldID"))
    ELSE Ok([real_id |-> id, ty |-> ty])

---------------------------------------------------------------------------
(* The runtime behind the function table, as the dispatch code sees it. *)

\* The most arguments a method of the model declares or a caller passes.
MaxArgs == 2

\* UTF-16 code units a char-kind raw entry may return: the ends of the
\* range, a letter, and the ends of the surrogate range and its neighbours.
JCharUnits == {0, 65, 55295, 55296, 57343, 57344, 65535}

\* Values a raw entry with the given return type may hand back.
RawReturns(kind) ==
    CASE kind = "Object"  -> 0..MaxPtr
      [] kind = "Boolean" -> BOOLEAN
      [] kind = "Byte"    -> {-128, 1, 127}
      [] kind = "Char"    -> JCharUnits
      [] kind = "Short"   -> {-32768, 1, 32767}
      [] kind = "Int"     -> {-2147483647, 0, 1}
      [] kind = "Long"    -> {-2147483647, 2, 2147483647}
      [] kind = "Float"   -> {0, 1}
      [] kind = "Double"  -> {0, 1}
      [] kind = "Void"    -> {0}

\* The match on id.ret_ty() in call_method: the raw entry each arm invokes and
\* the JValue arm it wraps the result in.
call_method_dispatch(ret_ty) ==
    CASE ret_ty = "Object"  -> [entry |-> "call_object_method",  arm |-> "Object"]
      [] ret_ty = "Boolean" -> [entry |-> "call_boolean_method", arm |-> "Bool"]
      [] ret_ty = "Byte"    -> [entry |-> "call_byte_method",    arm |-> "Byte"]
      [] ret_ty = "Char"    -> [entry |-> "call_char_method",    arm |-> "Char"]
      [] ret_ty = "Short"   -> [entry |-> "call_short_method",   arm |-> "Short"]
      [] ret_ty = "Int"     -> [entry |-> "call_int_method",     arm |-> "Int"]
      [] ret_ty = "Long"    -> [entry |-> "call_long_method",    arm |-> "Long"]
      [] ret_ty = "Float"   -> [entry |-> "call_float_method",   arm |-> "Float"]
      [] ret_ty = "Double"  -> [entry |-> "call_double_method",  arm |-> "Double"]
      [] ret_ty = "Void"    -> [entry |-> "call_void_method",    arm |-> "Void"]

\* The match on id.ret_ty() in call_nonvirtual_method: the raw entry each arm invokes and
\* the JValue arm it wraps the result in.
call_nonvirtual_method_dispatch(ret_ty) ==
    CASE ret_ty = "Object"  -> [entry |-> "call_nonvirtual_object_method",  arm |-> "Object"]
      [] ret_ty = "Boolean" -> [entry |-> "call_nonvirtual_boolean_method", arm |-> "Bool"]
      [] ret_ty = "Byte"    -> [entry |-> "call_nonvirtual_byte_method",    arm |-> "Byte"]
      [] ret_ty = "Char"    -> [entry |-> "call_nonvirtual_char_method",    arm |-> "Char"]
      [] ret_ty = "Short"   -> [entry |-> "call_nonvirtual_short_method",   arm |-> "Short"]
      [] ret_ty = "Int"     -> [entry |-> "call_nonvirtual_int_method",     arm |-> "Int"]
      [] ret_ty = "Long"    -> [entry |-> "call_nonvirtual_long_method",    arm |-> "Long"]
      [] ret_ty = "Float"   -> [entry |-> "call_nonvirtual_float_method",   arm |-> "Float"]
      [] ret_ty = "Double"  -> [entry |-> "call_nonvirtual_double_method",  arm |-> "Double"]
      [] ret_ty = "Void"    -> [entry |-> "call_nonvirtual_void_method",    arm |-> "Void"]

\* The match on id.ret_ty() in call_static_method: the raw entry each arm invokes and
\* the JValue arm it wraps the result in.
call_static_method_dispatch(ret_ty) ==
    CASE ret_ty = "Object"  -> [entry |-> "call_static_object_method",  arm |-> "Object"]
      [] ret_ty = "Boolean" -> [entry |-> "call_static_boolean_method", arm |-> "Bool"]
      [] ret_ty = "Byte"    -> [entry |-> "call_static_byte_method",    arm |-> "Byte"]
      [] ret_ty = "Char"    -> [entry |-> "call_static_char_method",    arm |-> "Char"]
      [] ret_ty = "Short"   -> [entry |-> "call_static_short_method",   arm |-> "Short"]
      [] ret_ty = "Int"     -> [entry |-> "call_static_int_method",     arm |-> "Int"]
      [] ret_ty = "Long"    -> [entry |-> "call_static_long_method",    arm |-> "Long"]
      [] ret_ty = "Float"   -> [entry |-> "call_static_float_method",   arm |-> "Float"]
      [] ret_ty = "Double"  -> [entry |-> "call_static_double_method",  arm |-> "Double"]
      [] ret_ty = "Void"    -> [entry |-> "call_static_void_method",    arm |-> "Void"]

\* The match on id.ty() in get_field: the raw entry each arm invokes and
\* the JValue arm it wraps the result in.
get_field_dispatch(ty) ==
    CASE ty = "Object"  -> [entry |-> "get_object_field",  arm |-> "Object"]
      [] ty = "Boolean" -> [entry |-> "get_boolean_field", arm |-> "Bool"]
      [] ty = "Byte"    -> [entry |-> "get_byte_field",    arm |-> "Byte"]
      [] ty = "Char"    -> [entry |-> "get_char_field",    arm |-> "Char"]
      [] ty = "Short"   -> [entry |-> "get_short_field",   arm |-> "Short"]
      [] ty = "Int"     -> [entry |-> "get_int_field",     arm |-> "Int"]
      [] ty = "Long"    -> [entry |-> "get_long_field",    arm |-> "Long"]
      [] ty = "Float"   -> [entry |-> "get_float_field",   arm |-> "Float"]
      [] ty = "Double"  -> [entry |-> "get_double_field",  arm |-> "Double"]

\* The match on id.ty() in get_static_field: the raw entry each arm invokes and
\* the JValue arm it wraps the result in.
get_static_field_dispatch(ty) ==
    CASE ty = "Object"  -> [entry |-> "get_static_object_field",  arm |-> "Object"]
      [] ty = "Boolean" -> [entry |-> "get_static_boolean_field", arm |-> "Bool"]
      [] ty = "Byte"    -> [entry |-> "get_static_byte_field",    arm |-> "Byte"]
      [] ty = "Char"    -> [entry |-> "get_static_char_field",    arm |-> "Char"]
      [] ty = "Short"   -> [entry |-> "get_static_short_field",   arm |-> "Short"]
      [] ty = "Int"     -> [entry |-> "get_static_int_field",     arm |-> "Int"]
      [] ty = "Long"    -> [entry |-> "get_static_long_field",    arm |-> "Long"]
      [] ty = "Float"   -> [entry |-> "get_static_float_field",   arm |-> "Float"]
      [] ty = "Double"  -> [entry |-> "get_static_double_field",  arm |-> "Double"]

\* A dispatch that hands the payload to the raw entry whatever its arm.
set_field_dispatch_cast(ty, val) ==
    [entry |-> "set_field", conv |-> Ok(val.val)]

\* The match on id.ty() in set_field: the conversion applied to the value and
\* the raw entry invoked when it succeeds.
set_field_dispatch(ty, val) ==
    CASE ty = "Object"  -> [entry |-> "set_object_field",  conv |-> into_obj(val)]
      [] ty = "Boolean" -> [entry |-> "set_boolean_field", conv |-> into_bool(val)]
      [] ty = "Byte"    -> [entry |-> "set_byte_field",    conv |-> into_byte(val)]
      [] ty = "Char"    -> [entry |-> "set_char_field",    conv |-> into_char(val)]
      [] ty = "Short"   -> [entry |-> "set_short_field",   conv |-> into_short(val)]
      [] ty = "Int"     -> [entry |-> "set_int_field",     conv |-> into_int(val)]
      [] ty = "Long"    -> [entry |-> "set_long_field",    conv |-> into_long(val)]
      [] ty = "Float"   -> [entry |-> "set_float_field",   conv |-> into_float(val)]
      [] ty = "Double"  -> [entry |-> "set_double_field",  conv |-> into_double(val)]

\* The match on id.ty() in set_static_field: the conversion applied to the value and
\* the raw entry invoked when it succeeds.
set_static_field_dispatch(ty, val) ==
    CASE ty = "Object"  -> [entry |-> "set_static_object_field",  conv |-> into_obj(val)]
      [] ty = "Boolean" -> [entry |-> "set_static_boolean_field", conv |-> into_bool(val)]
      [] ty = "Byte"    -> [entry |-> "set_static_byte_field",    conv |-> into_byte(val)]
      [] ty = "Char"    -> [entry |-> "set_static_char_field",    conv |-> into_char(val)]
      [] ty = "Short"   -> [entry |-> "set_static_short_field",   conv |-> into_short(val)]
      [] ty = "Int"     -> [entry |-> "set_static_int_field",     conv |-> into_int(val)]
      [] ty = "Long"    -> [entry |-> "set_static_long_field",    conv |-> into_long(val)]
      [] ty = "Float"   -> [entry |-> "set_static_float_field",   conv |-> into_float(val)]
      [] ty = "Double"  -> [entry |-> "set_static_double_field",  conv |-> into_double(val)]

\* The type of the value each raw entry of the function table returns
\* (src/src/ffi/native_interface.rs).
RawReturnKind(entry) ==
    CASE entry \in {"call_object_method", "call_nonvirtual_object_method", "call_static_object_method", "get_object_field", "get_static_object_field"} -> "Object"
      [] entry \in {"call_boolean_method", "call_nonvirtual_boolean_method", "call_static_boolean_method", "get_boolean_field", "get_static_boolean_field"} -> "Boolean"
      [] entry \in {"call_byte_method", "call_nonvirtual_byte_method", "call_static_byte_method", "get_byte_field", "get_static_byte_field"} -> "Byte"
      [] entry \in {"call_char_method", "call_nonvirtual_char_method", "call_static_char_method", "get_char_field", "get_static_char_field"} -> "Char"
      [] entry \in {"call_short_method", "call_nonvirtual_short_method", "call_static_short_method", "get_short_field", "get_static_short_field"} -> "Short"
      [] entry \in {"call_int_method", "call_nonvirtual_int_method", "call_static_int_method", "get_int_field", "get_static_int_field"} -> "Int"
      [] entry \in {"call_long_method", "call_nonvirtual_long_method", "call_static_long_method", "get_long_field", "get_static_long_field"} -> "Long"
      [] entry \in {"call_float_method", "call_nonvirtual_float_method", "call_static_float_method", "get_float_field", "get_static_float_field"} -> "Float"
      [] entry \in {"call_double_method", "call_nonvirtual_double_method", "call_static_double_method", "get_double_field", "get_static_double_field"} -> "Double"
      [] entry \in {"call_void_method", "call_nonvirtual_void_method", "call_static_void_method"} -> "Void"
      [] OTHER -> "Void"

\* The family of the function table each raw entry belongs to.
RawFamily(entry) ==
    CASE entry \in {"call_object_method", "call_boolean_method",
            "call_byte_method", "call_char_method", "call_short_method",
            "call_int_method", "call_long_method", "call_float_method",
            "call_double_method", "call_void_method"} -> "call_method"
      [] entry \in {"call_nonvirtual_object_method",
            "call_nonvirtual_boolean_method",
            "call_nonvirtual_byte_method", "call_nonvirtual_char_method",
            "call_nonvirtual_short_method", "call_nonvirtual_int_method",
            "call_nonvirtual_long_method", "call_nonvirtual_float_method",
            "call_nonvirtual_double_method", "call_nonvirtual_void_method"} -> "call_nonvirtual_method"
      [] entry \in {"call_static_object_method",
            "call_static_boolean_method", "call_static_byte_method",
            "call_static_char_method", "call_static_short_method",
            "call_static_int_method", "call_static_long_method",
            "call_static_float_method", "call_static_double_method",
            "call_static_void_method"} -> "call_static_method"
      [] entry \in {"get_object_field", "get_boolean_field",
            "get_byte_field", "get_char_field", "get_short_field",
            "get_int_field", "get_long_field", "get_float_field",
            "get_double_field"} -> "get_field"
      [] entry \in {"get_static_object_field", "get_static_boolean_field",
            "get_static_byte_field", "get_static_char_field",
            "get_static_short_field", "get_static_int_field",
            "get_static_long_field", "get_static_float_field",
            "get_static_double_field"} -> "get_static_field"
      [] entry \in {"set_object_field", "set_boolean_field",
            "set_byte_field", "set_char_field", "set_short_field",
            "set_int_field", "set_long_field", "set_float_field",
            "set_double_field"} -> "set_field"
      [] entry \in {"set_static_object_field", "set_static_boolean_field",
            "set_static_byte_field", "set_static_char_field",
            "set_static_short_field", "set_static_int_field",
            "set_static_long_field", "set_static_float_field",
            "set_static_double_field"} -> "set_static_field"
      [] OTHER -> "other"

---------------------------------------------------------------------------
(* Call and field dispatch  (src/src/env.rs) *)

\* std::char::from_u32: None for a surrogate or a value past 0x10FFFF.
char_from_u32(c) ==
    IF (c >= 55296 /\ c <= 57343) \/ c > 1114111 THEN None ELSE Some(c)

\* The body of one match arm once the raw entry has returned `result`:
\* the JValue (get_field) or Option<JValue> (call_*) it builds, an early
\* return of JObject::new's error, or the panic of expect().
wrap_result(arm, result) ==
    CASE arm = "Object" ->
            IF result = NULL THEN Ok(JValue("Object", None))
            ELSE LET h == smart_new("JObject", result)
                 IN  IF IsErr(h) THEN h
                     ELSE Ok(JValue("Object", Some(h.val)))
      [] arm = "Char" ->
            IF char_from_u32(result) = None
            THEN Panic("Java returned bad char")
            ELSE Ok(JValue("Char", char_from_u32(result)[1]))
      [] arm = "Void" -> Ok(JValue("Void", 0))
      [] OTHER -> Ok(JValue(arm, result))

\* What a call_* handler hands back after its match: the result is
\* replaced by an error when exception_check() reports a pending exception.
\* `wrapped` is the outcome of the match arm, `pending` the runtime's flag
\* after the raw call.
finish_call(entry, wrapped, pending) ==
    IF ~IsOk(wrapped) THEN [raw |-> <<entry>>, res |-> wrapped]
    ELSE IF pending
    THEN [raw |-> <<entry, "exception_check">>,
          res |-> Err(Error_new("Error occured during method call", JNI_ERR))]
    ELSE [raw |-> <<entry, "exception_check">>,
          res |-> Ok(IF wrapped.val.arm = "Void" THEN None
                     ELSE Some(wrapped.val))]

\* A call that does not compare the argument count with the id's.
call_method_unguarded(id, n_args, result, pending) ==
    LET d == call_method_dispatch(id.ret_type)
    IN  finish_call(d.entry, wrap_result(d.arm, result), pending)

\* JNIEnv::call_method, with the value `result` the raw entry returns.
call_method(id, n_args, result, pending) ==
    IF n_args # id.num_args
    THEN [raw |-> <<>>,
          res |-> Err(Error_new("Invalid number of arguement for method", JNI_ERR))]
    ELSE LET d == call_method_dispatch(id.ret_type)
         IN  finish_call(d.entry, wrap_result(d.arm, result), pending)

\* JNIEnv::call_nonvirtual_method
call_nonvirtual_method(id, n_args, result, pending) ==
    IF n_args # id.num_args
    THEN [raw |-> <<>>,
          res |-> Err(Error_new("Invalid number of arguments for method", JNI_ERR))]
    ELSE LET d == call_nonvirtual_method_dispatch(id.ret_type)
         IN  finish_call(d.entry, wrap_result(d.arm, result), pending)

\* JNIEnv::call_static_method
call_static_method(id, n_args, result, pending) ==
    IF n_args # id.num_args
    THEN [raw |-> <<>>,
          res |-> Err(Error_new("Invalid number of arguments for method", JNI_ERR))]
    ELSE LET d == call_static_method_dispatch(id.ret_type)
         IN  finish_call(d.entry, wrap_result(d.arm, result), pending)

\* JNIEnv::get_field: Ok(match ..), with no look at the exception flag.
get_field(id, result) ==
    LET d == get_field_dispatch(id.ty)
    IN  [raw |-> <<d.entry>>, res |-> wrap_result(d.arm, result)]

\* JNIEnv::get_static_field
get_static_field(id, result) ==
    LET d == get_static_field_dispatch(id.ty)
    IN  [raw |-> <<d.entry>>, res |-> wrap_result(d.arm, result)]

\* JNIEnv::set_field: the conversion's error is returned before any raw
\* call; after the raw set the handler returns Ok(()).
set_field(id, val) ==
    LET d == set_field_dispatch(id.ty, val)
    IN  IF IsErr(d.conv) THEN [raw |-> <<>>, res |-> d.conv]
        ELSE [raw |-> <<d.entry>>, res |-> Ok("()")]

\* JNIEnv::set_static_field
set_static_field(id, val) ==
    LET d == set_static_field_dispatch(id.ty, val)
    IN  IF IsErr(d.conv) THEN [raw |-> <<>>, res |-> d.conv]
        ELSE [raw |-> <<d.entry>>, res |-> Ok("()")]

\* JNIEnv::exception_check: the runtime's pending-exception flag.
exception_check(pending) == pending

\* JNIEnv::exception_clear: clears a pending exception, Err when none is.
exception_clear(pending) ==
    IF exception_check(pending)
    THEN [raw |-> <<"exception_check", "exception_clear">>, res |-> Ok("()")]
    ELSE [raw |-> <<"exception_check">>,
          res |-> Err(Error_new("No active error to clear", JNI_ERR))]

---------------------------------------------------------------------------
(* The descriptor mangler  (src/src/mangling.rs) *)

\* str::trim removes leading and trailing whitespace.
IsWhitespace(c) == c \in {" ", "\t", "\n"}

RECURSIVE trim_start(_)
trim_start(s) ==
    IF s # <<>> /\ IsWhitespace(Head(s)) THEN trim_start(Tail(s)) ELSE s

RECURSIVE trim_end(_)
trim_end(s) ==
    IF s # <<>> /\ IsWhitespace(s[Len(s)])
    THEN trim_end(SubSeq(s, 1, Len(s) - 1))
    ELSE s

trim(s) == trim_end(trim_start(s))

starts_with(s, p) == Len(s) >= Len(p) /\ SubSeq(s, 1, Len(p)) = p

ends_with(s, p) ==
    Len(s) >= Len(p) /\ SubSeq(s, Len(s) - Len(p) + 1, Len(s)) = p

\* str::find: the 0-based offset of the first occurrence of p, if any.
find(s, p) ==
    LET hits == {i \in 0..(Len(s) - Len(p)) : SubSeq(s, i + 1, i + Len(p)) = p}
    IN  IF hits = {} THEN None
        ELSE Some(CHOOSE i \in hits : \A j \in hits : i <= j)

\* str::split: the pieces between the occurrences of sep, empty ones kept.
RECURSIVE split(_, _)
split(s, sep) ==
    LET pos == find(s, sep)
    IN  IF pos = None THEN <<s>>
        ELSE <<SubSeq(s, 1, pos[1])>>
                 \o split(SubSeq(s, pos[1] + Len(sep) + 1, Len(s)), sep)

\* A replace that leaves the string as it is.
replace_none(s, from, to) == s

\* str::replace for one-character patterns.
replace(s, from, to) == [i \in 1..Len(s) |-> IF s[i] = from THEN to ELSE s[i]]

\* enum TypeSignature
Primitive(name) == [tag |-> "Primitive", name |-> name]

Class(name) == [tag |-> "Class", name |-> name]

Array(inner) == [tag |-> "Array", inner |-> inner]

Method(params, ret) == [tag |-> "Method", params |-> params, ret |-> ret]

PrimitiveNames ==
    { <<"b", "o", "o", "l", "e", "a", "n">>, <<"b", "y", "t", "e">>,
      <<"c", "h", "a", "r">>, <<"s", "h", "o", "r", "t">>, <<"i", "n", "t">>,
      <<"l", "o", "n", "g">>, <<"f", "l", "o", "a", "t">>,
      <<"d", "o", "u", "b", "l", "e">>, <<"v", "o", "i", "d">> }

is_primitive(name) == name \in PrimitiveNames

\* The upper-cased first letter of a name.
primitive_initial(name) ==
    CASE name = <<>>       -> <<>>
      [] Head(name) = "b"  -> <<"B">>
      [] Head(name) = "c"  -> <<"C">>
      [] Head(name) = "s"  -> <<"S">>
      [] Head(name) = "i"  -> <<"I">>
      [] Head(name) = "l"  -> <<"L">>
      [] Head(name) = "f"  -> <<"F">>
      [] Head(name) = "d"  -> <<"D">>
      [] Head(name) = "v"  -> <<"V">>
      [] OTHER             -> <<>>

primitive_symbol(name) ==
    CASE name = <<"b", "o", "o", "l", "e", "a", "n">> -> <<"Z">>
      [] name = <<"b", "y", "t", "e">>                -> <<"B">>
      [] name = <<"c", "h", "a", "r">>                -> <<"C">>
      [] name = <<"s", "h", "o", "r", "t">>           -> <<"S">>
      [] name = <<"i", "n", "t">>                     -> <<"I">>
      [] name = <<"l", "o", "n", "g">>                -> <<"J">>
      [] name = <<"f", "l", "o", "a", "t">>           -> <<"F">>
      [] name = <<"d", "o", "u", "b", "l", "e">>      -> <<"D">>
      [] name = <<"v", "o", "i", "d">>                -> <<"V">>
      [] OTHER                                        -> <<>>

RECURSIVE mangled(_)
RECURSIVE collect_mangled(_)
\* params.iter().map(|val| val.mangled()).collect::<String>()
collect_mangled(params) ==
    IF params = <<>> THEN <<>>
    ELSE mangled(Head(params)) \o collect_mangled(Tail(params))

mangled(sig) ==
    CASE sig.tag = "Primitive" -> primitive_symbol(sig.name)
      [] sig.tag = "Class"     -> <<"L">> \o replace(sig.name, ".", "/") \o <<";">>
      [] sig.tag = "Array"     -> <<"[">> \o mangled(sig.inner)
      [] sig.tag = "Method"    ->
            <<"(">> \o collect_mangled(sig.params) \o <<")">> \o mangled(sig.ret)

RECURSIVE mangle_class(_)
RECURSIVE map_mangle_class(_)
\* .map(&mangle_class).collect(): Ok with every piece's signature, or the
\* first panic.
map_mangle_class(pieces) ==
    IF pieces = <<>> THEN Ok(<<>>)
    ELSE LET first == mangle_class(Head(pieces))
         IN  IF IsPanic(first) THEN first
             ELSE LET rest == map_mangle_class(Tail(pieces))
                  IN  IF IsPanic(rest) THEN rest
                      ELSE Ok(<<first.val>> \o rest.val)

\* An argument parser that drops every argument.
handle_args_none(args) == Ok(<<>>)

handle_args(args) ==
    IF Len(args) > 2
    THEN map_mangle_class(split(SubSeq(args, 2, Len(args) - 1), <<",">>))
    ELSE Ok(<<>>)

\* Ok(signature), or Panic where the code panics.
mangle_class(given) ==
    LET name == trim(given)
    IN  IF is_primitive(name) THEN Ok(Primitive(name))
        ELSE IF starts_with(name, <<"(">>) THEN
            LET pos == find(name, <<"-", ">">>)
            IN  IF pos # None THEN
                    LET args == trim(SubSeq(name, 1, pos[1]))
                        ret  == trim(SubSeq(name, pos[1] + 1, Len(name)))
                        a    == handle_args(args)
                    IN  IF IsPanic(a) THEN a
                        ELSE LET r == mangle_class(SubSeq(ret, 3, Len(ret)))
                             IN  IF IsPanic(r) THEN r
                                 ELSE Ok(Method(a.val, r.val))
                ELSE Panic("Invalid class to mangle")
        ELSE IF ends_with(name, <<"[", "]">>) THEN
            LET inner == mangle_class(SubSeq(name, 1, Len(name) - 2))
            IN  IF IsPanic(inner) THEN inner ELSE Ok(Array(inner.val))
        ELSE Ok(Class(name))

---------------------------------------------------------------------------
(* Smart handles and their casts  (src/src/types/object.rs) *)

\* The handle kinds declared with smart_obj!.
HandleKinds ==
    {"JObject", "JThrowable", "JClass", "JString", "JWeak", "JArray",
     "JObjectArray", "JBooleanArray", "JByteArray", "JCharArray",
     "JShortArray", "JIntArray", "JLongArray", "JFloatArray", "JDoubleArray"}

\* The string literal each smart_obj! declaration passes as $y.
java_name_literal(kind) ==
    CASE kind = "JObject" ->
            <<"[", "L", "j", "a", "v", "a", "/", "l", "a", "n", "g", "/", "O", "b",
              "j", "e", "c", "t", ";">>
      [] kind = "JThrowable" ->
            <<"[", "L", "j", "a", "v", "a", "/", "l", "a", "n", "g", "/", "T", "h",
              "r", "o", "w", "a", "b", "l", "e", ";">>
      [] kind = "JClass" ->
            <<"[", "L", "j", "a", "v", "a", "/", "l", "a", "n", "g", "/", "C", "l",
              "a", "s", "s", ";">>
      [] kind = "JString" ->
            <<"[", "L", "j", "a", "v", "a", "/", "l", "a", "n", "g", "/", "S", "t",
              "r", "i", "n", "g", ";">>
      [] kind = "JWeak" ->
            <<"[", "L", "j", "a", "v", "a", "/", "l", "a", "n", "g", "/", "r", "e",
              "f", "/", "W", "e", "a", "k", "R", "e", "f", "e", "r", "e",
              "n", "c", "e", ";">>
      [] kind = "JArray" ->
            <<>>
      [] kind = "JObjectArray" ->
            <<"[", "L", "j", "a", "v", "a", "/", "l", "a", "n", "g", "/", "O", "b",
              "j", "e", "c", "t", ";">>
      [] kind = "JBooleanArray" ->
            <<"[", "Z">>
      [] kind = "JByteArray" ->
            <<"[", "B">>
      [] kind = "JCharArray" ->
            <<"[", "C">>
      [] kind = "JShortArray" ->
            <<"[", "S">>
      [] kind = "JIntArray" ->
            <<"[", "I">>
      [] kind = "JLongArray" ->
            <<"[", "J">>
      [] kind = "JFloatArray" ->
            <<"[", "F">>
      [] kind = "JDoubleArray" ->
            <<"[", "D">>

\* stringify!($y) of a string literal token is the token's source text, so
\* it keeps the two quote characters.
stringify(literal) == <<"\"">> \o literal \o <<"\"">>

get_java_name(kind) == stringify(java_name_literal(kind))

\* The pairs ($x, $y) declared with upcast!: $x is cast up to $y.
Upcasts ==
    {<<"JObject", k>> : k \in {"JThrowable", "JClass", "JString", "JWeak", "JArray"}}

ArrayHandleKinds ==
    {"JObjectArray", "JBooleanArray", "JByteArray", "JCharArray",
     "JShortArray", "JIntArray", "JLongArray", "JFloatArray", "JDoubleArray"}

\* The pairs ($x, $y) declared with extends!: $x is cast down to $y.
Extends ==
    {<<k, "JObject">> : k \in {"JThrowable", "JClass", "JString", "JArray"}}
        \cup {<<k, "JObject">> : k \in ArrayHandleKinds}
        \cup {<<k, "JArray">> : k \in ArrayHandleKinds}

\* Result::unwrap
unwrap(r) ==
    IF IsOk(r) THEN r ELSE Panic("called Result::unwrap() on an Err value")

---------------------------------------------------------------------------
(* The runtime's classes, as the cast operations see them.  A class pointer *)
(* is the class's position in BaseClasses, its array class lies            *)
(* Len(BaseClasses) above it.                                               *)

BaseClasses ==
    << <<"j", "a", "v", "a", "/", "l", "a", "n", "g", "/", "O", "b", "j", "e",
         "c", "t">>,
       <<"j", "a", "v", "a", "/", "l", "a", "n", "g", "/", "S", "t", "r", "i",
         "n", "g">>,
       <<"j", "a", "v", "a", "/", "l", "a", "n", "g", "/", "T", "h", "r", "o",
         "w", "a", "b", "l", "e">>,
       <<"j", "a", "v", "a", "/", "l", "a", "n", "g", "/", "C", "l", "a", "s", "s">>,
       <<"j", "a", "v", "a", "/", "l", "a", "n", "g", "/", "r", "e", "f", "/",
         "W", "e", "a", "k", "R", "e", "f", "e", "r", "e", "n", "c", "e">> >>

\* FindClass: the pointer of the class a name denotes, NULL for a name that
\* denotes none.  Beside the binary name a/b/C it resolves the forms
\* La/b/C; and [La/b/C; that mangled() produces.
RawFindClass(name) ==
    LET n    == Len(BaseClasses)
        base == {i \in 1..n : name = BaseClasses[i]
                                \/ name = <<"L">> \o BaseClasses[i] \o <<";">>}
        arr  == {i \in 1..n : name = <<"[", "L">> \o BaseClasses[i] \o <<";">>}
    IN  IF base # {} THEN CHOOSE i \in base : TRUE
        ELSE IF arr # {} THEN n + (CHOOSE i \in arr : TRUE)
        ELSE NULL

\* IsAssignableFrom: every class is assignable to itself and to
\* java.lang.Object (class 1), every array class to Object[] as well.
RawIsAssignableFrom(from, to) ==
    \/ from = to
    \/ to = 1
    \/ from > Len(BaseClasses) /\ to = Len(BaseClasses) + 1

\* The class of the object behind each object pointer.
ObjectClasses == <<7, 2, 8, 1, 3, 9, 4, 10, 5, 6>>

\* GetObjectClass
RawGetObjectClass(ptr) ==
    IF ptr = NULL THEN NULL
    ELSE ObjectClasses[((ptr - 1) % Len(ObjectClasses)) + 1]

---------------------------------------------------------------------------
(* Class lookup and the casts  (src/src/env.rs, src/src/types/object.rs) *)

\* JNIEnv::find_class.  thrown tells whether the raw lookup failed, which
\* leaves the runtime's NoClassDefFoundError pending.  The names looked up
\* hold no NUL byte, so cstr_from_str succeeds.
find_class(name) ==
    LET sig == mangle_class(name)
    IN  IF IsPanic(sig) THEN [res |-> sig, thrown |-> FALSE]
        ELSE LET new_cls == RawFindClass(mangled(sig.val))
             IN  IF new_cls = NULL
                 THEN [res |-> Err(Error_new("Could not find Java Class", JNI_ERR)),
                       thrown |-> TRUE]
                 ELSE [res |-> smart_new("JClass", new_cls), thrown |-> FALSE]

\* JNIEnv::get_object_class
get_object_class(obj) ==
    LET cls == RawGetObjectClass(obj.backing_ptr)
    IN  IF cls = NULL
        THEN Err(Error_new("Couldn't get object class", JNI_ERR))
        ELSE smart_new("JClass", cls)

\* JNIEnv::is_assignable_from
is_assignable_from(from, to) ==
    RawIsAssignableFrom(from.backing_ptr, to.backing_ptr)

\* upcast!($x, $y), by value: self is a $x handle, y the target kind.
\* Self is $x, so the name looked up is the one of self's own kind.
upcast(self, y) ==
    LET self_name == get_java_name(self.kind)
        cast_cls  == find_class(self_name)
    IN  IF ~IsOk(cast_cls.res) THEN cast_cls
        ELSE LET cls == get_object_class(self)
             IN  IF ~IsOk(cls) THEN [res |-> cls, thrown |-> FALSE]
                 ELSE IF ~is_assignable_from(cls.val, cast_cls.res.val)
                 THEN [res |-> Err(Error_new("Can't assign to type", -1)),
                       thrown |-> FALSE]
                 ELSE [res |-> smart_new(y, self.backing_ptr), thrown |-> FALSE]

\* upcast_raw, by value.
upcast_raw(self, y) == unwrap(smart_new(y, self.backing_ptr))

\* upcast on a reference: the reference is reinterpreted, nothing is asked
\* of the runtime.
upcast_ref(self, y) == Ok(Handle(y, self.backing_ptr))

\* upcast_raw on a reference.
upcast_raw_ref(self, y) == Handle(y, self.backing_ptr)

\* A downcast that wraps the null pointer.
downcast_null(self, y) == unwrap(smart_new(y, NULL))

\* extends!($x, $y), by value.
downcast(self, y) == unwrap(smart_new(y, self.backing_ptr))

\* extends!($x, $y), on a reference.
downcast_ref(self, y) == Handle(y, self.backing_ptr)

---------------------------------------------------------------------------
(* Primitive arrays  (src/src/types/array.rs, src/src/env.rs) *)

\* The longest array the caller creates, and the most element buffers the
\* runtime has memory for.
MaxLen == 3

MaxBuffers == 2

JNI_COMMIT == 1

JNI_ABORT == 2

\* enum ReleaseMode
ReleaseMode == {"CopyFree", "Commit", "Abort"}

\* A conversion that passes every mode on as JNI_COMMIT.
ReleaseMode_into_commit(mode) == JNI_COMMIT

\* impl Into<JInt> for ReleaseMode
ReleaseMode_into(mode) ==
    CASE mode = "CopyFree" -> 0
      [] mode = "Commit"   -> JNI_COMMIT
      [] mode = "Abort"    -> JNI_ABORT

\* Element values are written as naturals whatever the element kind: a new
\* array is all zero, and the caller writes 1, 2, .. into a view or vector.
Zeros(n) == [i \in 1..n |-> 0]

Iota(n) == [i \in 1..n |-> i]

\* The handle kind JNativeArray::new_raw wraps an array of each type in.

array_handle_kind(ty) ==
    CASE ty = "Boolean" -> "JBooleanArray"
      [] ty = "Byte"    -> "JByteArray"
      [] ty = "Char"    -> "JCharArray"
      [] ty = "Short"   -> "JShortArray"
      [] ty = "Int"     -> "JIntArray"
      [] ty = "Long"    -> "JLongArray"
      [] ty = "Float"   -> "JFloatArray"
      [] ty = "Double"  -> "JDoubleArray"


\* JNativeArray::new_raw
JNativeArray_new_raw(arr, ty) ==
    LET h == smart_new(array_handle_kind(ty), arr)
    IN  IF IsOk(h) THEN Ok([jtype |-> ty, handle |-> h.val]) ELSE h

\* A JNativeSlice of the given element kind over len elements at ptr.
JNativeSlice(ty, ptr, len) == [jtype |-> ty, ptr |-> ptr, len |-> len]

\* A Vec<T>: len initialised elements at the start of a buffer whose
\* capacity is the buffer's length.
Vec(len, buf) == [len |-> len, buf |-> buf]

\* The elements a Vec holds.
VecContents(v) == SubSeq(v.buf, 1, v.len)

\* A JNativeVec of the given element kind.
JNativeVec(ty, vec) == [jtype |-> ty, vec |-> vec]

\* The raw entry each array operation selects for an element kind.

new_native_array_dispatch(ty) ==
    CASE ty = "Boolean" -> "new_boolean_array"
      [] ty = "Byte"    -> "new_byte_array"
      [] ty = "Char"    -> "new_char_array"
      [] ty = "Short"   -> "new_short_array"
      [] ty = "Int"     -> "new_int_array"
      [] ty = "Long"    -> "new_long_array"
      [] ty = "Float"   -> "new_float_array"
      [] ty = "Double"  -> "new_double_array"


get_native_array_elements_dispatch(ty) ==
    CASE ty = "Boolean" -> "get_boolean_array_elements"
      [] ty = "Byte"    -> "get_byte_array_elements"
      [] ty = "Char"    -> "get_char_array_elements"
      [] ty = "Short"   -> "get_short_array_elements"
      [] ty = "Int"     -> "get_int_array_elements"
      [] ty = "Long"    -> "get_long_array_elements"
      [] ty = "Float"   -> "get_float_array_elements"
      [] ty = "Double"  -> "get_double_array_elements"


release_native_array_elements_dispatch(ty) ==
    CASE ty = "Boolean" -> "release_boolean_array_elements"
      [] ty = "Byte"    -> "release_byte_array_elements"
      [] ty = "Char"    -> "release_char_array_elements"
      [] ty = "Short"   -> "release_short_array_elements"
      [] ty = "Int"     -> "release_int_array_elements"
      [] ty = "Long"    -> "release_long_array_elements"
      [] ty = "Float"   -> "release_float_array_elements"
      [] ty = "Double"  -> "release_double_array_elements"


get_native_array_region_dispatch(ty) ==
    CASE ty = "Boolean" -> "get_boolean_array_region"
      [] ty = "Byte"    -> "get_byte_array_region"
      [] ty = "Char"    -> "get_char_array_region"
      [] ty = "Short"   -> "get_short_array_region"
      [] ty = "Int"     -> "get_int_array_region"
      [] ty = "Long"    -> "get_long_array_region"
      [] ty = "Float"   -> "get_float_array_region"
      [] ty = "Double"  -> "get_double_array_region"


set_native_array_region_dispatch(ty) ==
    CASE ty = "Boolean" -> "set_boolean_array_region"
      [] ty = "Byte"    -> "set_byte_array_region"
      [] ty = "Char"    -> "set_char_array_region"
      [] ty = "Short"   -> "set_short_array_region"
      [] ty = "Int"     -> "set_int_array_region"
      [] ty = "Long"    -> "set_long_array_region"
      [] ty = "Float"   -> "set_float_array_region"
      [] ty = "Double"  -> "set_double_array_region"


\* The element kind each raw array entry of the function table works on
\* ("any" for the entries that take every primitive array).
ArrayEntryKind(entry) ==
    CASE entry \in {"new_boolean_array", "get_boolean_array_elements",
                   "release_boolean_array_elements", "get_boolean_array_region",
                   "set_boolean_array_region"} -> "Boolean"
      [] entry \in {"new_byte_array", "get_byte_array_elements",
                   "release_byte_array_elements", "get_byte_array_region",
                   "set_byte_array_region"} -> "Byte"
      [] entry \in {"new_char_array", "get_char_array_elements",
                   "release_char_array_elements", "get_char_array_region",
                   "set_char_array_region"} -> "Char"
      [] entry \in {"new_short_array", "get_short_array_elements",
                   "release_short_array_elements", "get_short_array_region",
                   "set_short_array_region"} -> "Short"
      [] entry \in {"new_int_array", "get_int_array_elements",
                   "release_int_array_elements", "get_int_array_region",
                   "set_int_array_region"} -> "Int"
      [] entry \in {"new_long_array", "get_long_array_elements",
                   "release_long_array_elements", "get_long_array_region",
                   "set_long_array_region"} -> "Long"
      [] entry \in {"new_float_array", "get_float_array_elements",
                   "release_float_array_elements", "get_float_array_region",
                   "set_float_array_region"} -> "Float"
      [] entry \in {"new_double_array", "get_double_array_elements",
                   "release_double_array_elements", "get_double_array_region",
                   "set_double_array_region"} -> "Double"
      [] OTHER -> "any"

\* The array operation of the layer each raw array entry belongs to.
ArrayEntryFamily(entry) ==
    CASE entry \in
                   {"new_boolean_array", "new_byte_array", "new_char_array",
                    "new_short_array", "new_int_array", "new_long_array",
                    "new_float_array", "new_double_array"} ->
            "new_native_array"
      [] entry \in
                   {"get_boolean_array_elements", "get_byte_array_elements",
                    "get_char_array_elements", "get_short_array_elements",
                    "get_int_array_elements", "get_long_array_elements",
                    "get_float_array_elements", "get_double_array_elements"} ->
            "get_native_array_elements"
      [] entry \in
                   {"release_boolean_array_elements",
                    "release_byte_array_elements",
                    "release_char_array_elements",
                    "release_short_array_elements",
                    "release_int_array_elements",
                    "release_long_array_elements",
                    "release_float_array_elements",
                    "release_double_array_elements"} ->
            "release_native_array_elements"
      [] entry \in
                   {"get_boolean_array_region", "get_byte_array_region",
                    "get_char_array_region", "get_short_array_region",
                    "get_int_array_region", "get_long_array_region",
                    "get_float_array_region", "get_double_array_region"} ->
            "get_native_array_region"
      [] entry \in
                   {"set_boolean_array_region", "set_byte_array_region",
                    "set_char_array_region", "set_short_array_region",
                    "set_int_array_region", "set_long_array_region",
                    "set_float_array_region", "set_double_array_region"} ->
            "set_native_array_region"
      [] OTHER -> entry

---------------------------------------------------------------------------
(* The runtime's arrays and element buffers.  An array pointer is the      *)
(* array's position in arrays, a buffer pointer its position in bufs.  The *)
(* runtime state rt is the pair of both.  The model follows one array at   *)
(* a time: a new array takes the place of the one the caller dropped.      *)

FreeBuf ==
    [open |-> FALSE, arr |-> NULL, critical |-> FALSE, is_copy |-> FALSE,
     data |-> <<>>]

\* New<Type>Array: a zeroed array, or NULL when the runtime is out of
\* memory (oom).
RawNewArray(rt, ty, len, oom) ==
    IF oom THEN [ptr |-> NULL, rt |-> rt]
    ELSE [ptr |-> 1,
          rt  |-> [rt EXCEPT !.arrays = <<[jtype |-> ty, data |-> Zeros(len)]>>]]

\* GetArrayLength
RawGetArrayLength(rt, arr) == Len(rt.arrays[arr].data)

\* A runtime that opens every free buffer for the array at once.
RawGetArrayElements_all(rt, arr, critical, is_copy) ==
    LET free == {b \in DOMAIN rt.bufs : ~rt.bufs[b].open}
    IN  IF free = {} THEN [ptr |-> NULL, rt |-> rt]
        ELSE [ptr |-> CHOOSE x \in free : \A y \in free : x <= y,
              rt  |-> [rt EXCEPT !.bufs =
                         [b \in DOMAIN @ |->
                            IF b \in free
                            THEN [open |-> TRUE, arr |-> arr, critical |-> critical,
                                  is_copy |-> is_copy,
                                  data |-> IF is_copy THEN rt.arrays[arr].data ELSE <<>>]
                            ELSE @[b]]]]

\* Get<Type>ArrayElements and GetPrimitiveArrayCritical: a buffer that is
\* a copy of the elements (is_copy) or the pinned elements themselves, or
\* NULL when the runtime is out of memory.
RawGetArrayElements(rt, arr, critical, is_copy) ==
    LET free == {b \in DOMAIN rt.bufs : ~rt.bufs[b].open}
    IN  IF free = {} THEN [ptr |-> NULL, rt |-> rt]
        ELSE LET b == CHOOSE x \in free : \A y \in free : x <= y
             IN  [ptr |-> b,
                  rt  |-> [rt EXCEPT !.bufs[b] =
                             [open |-> TRUE, arr |-> arr, critical |-> critical,
                              is_copy |-> is_copy,
                              data |-> IF is_copy THEN rt.arrays[arr].data ELSE <<>>]]]

\* The elements seen through an open buffer.
BufContents(rt, b) ==
    IF rt.bufs[b].is_copy THEN rt.bufs[b].data ELSE rt.arrays[rt.bufs[b].arr].data

\* A write of data through an open buffer.
RawWrite(rt, b, data) ==
    IF rt.bufs[b].is_copy
    THEN [rt EXCEPT !.bufs[b].data = data]
    ELSE [rt EXCEPT !.arrays[rt.bufs[b].arr].data = data]

\* Release<Type>ArrayElements and ReleasePrimitiveArrayCritical: mode 0
\* copies a copy back and frees the buffer, JNI_COMMIT copies back and
\* keeps it, JNI_ABORT frees it without copying back.
RawReleaseArrayElements(rt, arr, elems, mode) ==
    LET buf    == rt.bufs[elems]
        copied == IF buf.is_copy /\ mode \in {0, JNI_COMMIT}
                  THEN [rt EXCEPT !.arrays[arr].data = buf.data]
                  ELSE rt
    IN  IF mode \in {0, JNI_ABORT}
        THEN [copied EXCEPT !.bufs[elems] = FreeBuf]
        ELSE copied

\* Get<Type>ArrayRegion: the elements start .. start+len-1, written to the
\* caller's buffer.
RawGetArrayRegion(rt, arr, start, len) ==
    SubSeq(rt.arrays[arr].data, start + 1, start + len)

\* Set<Type>ArrayRegion: the first len elements of the caller's buffer
\* replace the elements start .. start+len-1.
RawSetArrayRegion(rt, arr, start, len, buffer) ==
    [rt EXCEPT !.arrays[arr].data =
        [i \in 1..Len(@) |-> IF i > start /\ i <= start + len
                             THEN buffer[i - start] ELSE @[i]]]

---------------------------------------------------------------------------
(* The array operations  (src/src/env.rs) *)
(* Each takes the runtime state rt and returns the raw entries it invoked, *)
(* its result, and the runtime state it leaves.                            *)

\* JNativeArray::as_jarray
as_jarray(arr) == downcast_ref(arr.handle, "JArray")

\* JNIEnv::get_array_length
get_array_length(rt, array) == RawGetArrayLength(rt, array.backing_ptr)

\* JNIEnv::new_native_array
new_native_array(rt, len, ty, oom) ==
    LET r == RawNewArray(rt, ty, len, oom)
    IN  [raw |-> <<new_native_array_dispatch(ty)>>,
         res |-> IF r.ptr = NULL
                 THEN Err(Error_new("Couldn't create new native array", JNI_ERR))
                 ELSE JNativeArray_new_raw(r.ptr, ty),
         rt  |-> r.rt]

\* JNIEnv::get_native_array_elements; is_copy is what the runtime stores
\* through the flag pointer, which the code then drops.
get_native_array_elements(rt, arr, is_copy) ==
    LET jarr == as_jarray(arr)
        len  == get_array_length(rt, jarr)
        r    == RawGetArrayElements(rt, arr.handle.backing_ptr, FALSE, is_copy)
    IN  [raw |-> <<"get_array_length", get_native_array_elements_dispatch(arr.jtype)>>,
         res |-> IF r.ptr = NULL
                 THEN Err(Error_new("Couldn't get array elements", JNI_ERR))
                 ELSE Ok(JNativeSlice(arr.jtype, r.ptr, len)),
         rt  |-> r.rt]

\* A release that hands the slice to the runtime whatever its kind.
release_native_array_elements_unchecked(rt, arr, slice, mode) ==
    [raw |-> <<release_native_array_elements_dispatch(arr.jtype)>>,
     res |-> Ok("()"),
     rt  |-> rt]

\* JNIEnv::release_native_array_elements
release_native_array_elements(rt, arr, slice, mode) ==
    IF arr.jtype # slice.jtype
    THEN [raw |-> <<>>,
          res |-> Err(Error_new("Invalid array/slice combo", JNI_ERR)),
          rt  |-> rt]
    ELSE [raw |-> <<release_native_array_elements_dispatch(arr.jtype)>>,
          res |-> Ok("()"),
          rt  |-> RawReleaseArrayElements(rt, arr.handle.backing_ptr, slice.ptr,
                                          ReleaseMode_into(mode))]

\* JNIEnv::get_native_array_region.  The Vec is created with capacity len
\* and the runtime writes through its pointer; its length is never set.
get_native_array_region(rt, arr, start, len) ==
    LET out == RawGetArrayRegion(rt, arr.handle.backing_ptr, start, len)
    IN  [raw |-> <<get_native_array_region_dispatch(arr.jtype)>>,
         res |-> Ok(JNativeVec(arr.jtype, Vec(0, out))),
         rt  |-> rt]

\* JNIEnv::set_native_array_region
set_native_array_region(rt, arr, start, len, slice) ==
    IF arr.jtype # slice.jtype
    THEN [raw |-> <<>>,
          res |-> Err(Error_new("Invalid array/vec combo", JNI_ERR)),
          rt  |-> rt]
    ELSE [raw |-> <<set_native_array_region_dispatch(arr.jtype)>>,
          res |-> Ok("()"),
          rt  |-> RawSetArrayRegion(rt, arr.handle.backing_ptr, start, len,
                                    slice.vec.buf)]

\* JNIEnv::get_primitive_array_critical
get_primitive_array_critical(rt, arr, is_copy) ==
    LET jarr == as_jarray(arr)
        len  == get_array_length(rt, jarr)
        r    == RawGetArrayElements(rt, jarr.backing_ptr, TRUE, is_copy)
    IN  [raw |-> <<"get_array_length", "get_primitive_array_critical">>,
         res |-> IF r.ptr = NULL
                 THEN Err(Error_new("Couldn't get array elements", JNI_ERR))
                 ELSE Ok(JNativeSlice(arr.jtype, r.ptr, len)),
         rt  |-> r.rt]

\* JNIEnv::release_primitive_array_critical
release_primitive_array_critical(rt, arr, slice, mode) ==
    IF arr.jtype # slice.jtype
    THEN [raw |-> <<>>,
          res |-> Err(Error_new("Invalid array/slice combo", JNI_ERR)),
          rt  |-> rt]
    ELSE [raw |-> <<"release_primitive_array_critical">>,
          res |-> Ok("()"),
          rt  |-> RawReleaseArrayElements(rt, as_jarray(arr).backing_ptr,
                                          slice.ptr, ReleaseMode_into(mode))]

---------------------------------------------------------------------------
(* The states in which an area of the model has not been used yet.  Each   *)
(* specification below starts the other areas idle and leaves them so.     *)

NoConv == [op |-> "none"]

NoOp == [op |-> "none"]

NoCast ==
    [op |-> "none", kind |-> "-", from |-> "-", ptr |-> NULL, res |-> Ok("()"),
     via |-> "-"]

NoRelease == [op |-> "none", mode |-> "-"]

NoArrOp ==
    [op |-> "none", arr |-> NULL, jtype |-> "-", sty |-> "-", ptr |-> NULL,
     mode |-> "-", start |-> 0, len |-> 0, data |-> <<>>, raw |-> <<>>,
     res |-> Ok("()"), after |-> NoRelease]

NoCode == [op |-> "none", code |-> 0, cap |-> 0, raw |-> <<>>, res |-> Ok("()")]

NoLookup ==
    [op |-> "none",
     desc |-> [shape |-> "type", params |-> <<>>,
               ret |-> [base |-> <<>>, depth |-> 0], pad |-> <<>>],
     name_has_nul |-> FALSE, id |-> NULL, raw |-> <<>>, res |-> Ok("()")]

NoReflected ==
    [op |-> "none", from |-> "none", sig |-> <<>>, id |-> NULL, obj |-> NULL,
     res |-> Ok("()")]

NoExcOp ==
    [op |-> "none", arg |-> NULL, before |-> NULL, raw |-> <<>>, res |-> Ok("()")]

NoStrOp ==
    [op |-> "none", str |-> NULL, units |-> <<>>, buf |-> NULL, raw |-> <<>>,
     res |-> Ok("()")]

NoMangle ==
    [op |-> "none",
     desc |-> [shape |-> "type", params |-> <<>>,
               ret |-> [base |-> <<>>, depth |-> 0], pad |-> <<>>],
     parsed |-> Ok("()"), out |-> <<>>]

ValueIdle == jv = JValue("Bool", FALSE) /\ conv = NoConv

DispatchIdle == exc = FALSE /\ last = NoOp

CastIdle == live = {} /\ castOp = NoCast

ArrayIdle ==
    /\ arrays = <<>>
    /\ bufs = [b \in 1..MaxBuffers |-> FreeBuf]
    /\ slices = {}
    /\ arrOp = NoArrOp

CodeIdle == codeOp = NoCode

ExcIdle == occurred = NULL /\ excOp = NoExcOp

StrIdle == strOp = NoStrOp

LookupIdle == lookup = NoLookup /\ reflected = NoReflected

MangleIdle == mangleOp = NoMangle

---------------------------------------------------------------------------
(* Specification SpecValue: a JValue is built as one arm and converted. *)

ValueInit ==
    /\ \E arm \in JValueArms : \E v \in Payloads(arm) : jv = JValue(arm, v)
    /\ conv = NoConv
    /\ DispatchIdle /\ CastIdle /\ ArrayIdle
    /\ CodeIdle /\ ExcIdle /\ StrIdle /\ LookupIdle /\ MangleIdle

\* The caller builds another JValue (JValue::Bool(..), From<..>).
NewJValue ==
    /\ \E arm \in JValueArms : \E v \in Payloads(arm) : jv' = JValue(arm, v)
    /\ conv' = NoConv
    /\ UNCHANGED <<dispatchVars, castVars, arrayVars,
                 codeVars, lookupVars, mangleVars,
                 excVars, strVars>>

IntoObj ==
    /\ conv' = [op |-> "into_obj", res |-> into_obj(jv)]
    /\ UNCHANGED <<jv, dispatchVars, castVars, arrayVars,
                 codeVars, lookupVars, mangleVars,
                 excVars, strVars>>

IntoBool ==
    /\ conv' = [op |-> "into_bool", res |-> into_bool(jv)]
    /\ UNCHANGED <<jv, dispatchVars, castVars, arrayVars,
                 codeVars, lookupVars, mangleVars,
                 excVars, strVars>>

IntoByte ==
    /\ conv' = [op |-> "into_byte", res |-> into_byte(jv)]
    /\ UNCHANGED <<jv, dispatchVars, castVars, arrayVars,
                 codeVars, lookupVars, mangleVars,
                 excVars, strVars>>

IntoChar ==
    /\ conv' = [op |-> "into_char", res |-> into_char(jv)]
    /\ UNCHANGED <<jv, dispatchVars, castVars, arrayVars,
                 codeVars, lookupVars, mangleVars,
                 excVars, strVars>>

IntoShort ==
    /\ conv' = [op |-> "into_short", res |-> into_short(jv)]
    /\ UNCHANGED <<jv, dispatchVars, castVars, arrayVars,
                 codeVars, lookupVars, mangleVars,
                 excVars, strVars>>

IntoInt ==
    /\ conv' = [op |-> "into_int", res |-> into_int(jv)]
    /\ UNCHANGED <<jv, dispatchVars, castVars, arrayVars,
                 codeVars, lookupVars, mangleVars,
                 excVars, strVars>>

IntoLong ==
    /\ conv' = [op |-> "into_long", res |-> into_long(jv)]
    /\ UNCHANGED <<jv, dispatchVars, castVars, arrayVars,
                 codeVars, lookupVars, mangleVars,
                 excVars, strVars>>

IntoFloat ==
    /\ conv' = [op |-> "into_float", res |-> into_float(jv)]
    /\ UNCHANGED <<jv, dispatchVars, castVars, arrayVars,
                 codeVars, lookupVars, mangleVars,
                 excVars, strVars>>

IntoDouble ==
    /\ conv' = [op |-> "into_double", res |-> into_double(jv)]
    /\ UNCHANGED <<jv, dispatchVars, castVars, arrayVars,
                 codeVars, lookupVars, mangleVars,
                 excVars, strVars>>

ValueNext ==
    \/ NewJValue
    \/ IntoObj
    \/ IntoBool
    \/ IntoByte
    \/ IntoChar
    \/ IntoShort
    \/ IntoInt
    \/ IntoLong
    \/ IntoFloat
    \/ IntoDouble

SpecValue == ValueInit /\ [][ValueNext]_vars

\* The arm each conversion is declared to read.
ArmOfConversion(op) ==
    CASE op = "into_obj"    -> "Object"
      [] op = "into_bool"   -> "Bool"
      [] op = "into_byte"   -> "Byte"
      [] op = "into_char"   -> "Char"
      [] op = "into_short"  -> "Short"
      [] op = "into_int"    -> "Int"
      [] op = "into_long"   -> "Long"
      [] op = "into_float"  -> "Float"
      [] op = "into_double" -> "Double"

\* C4: into_X on a value built as arm X is Ok with the payload; on a value
\* built as any of the other eight arms it is a type-mismatch Err (code
\* JNI_ERR); no arm is read as another.
C4_IntoExhaustive ==
    conv.op # "none" =>
        IF jv.arm = ArmOfConversion(conv.op)
        THEN IsOk(conv.res) /\ conv.res.val = jv.val
        ELSE /\ IsErr(conv.res)
             /\ conv.res.err.variant = "General"
             /\ conv.res.err.code = JNI_ERR

\* into_int was applied to Bool(true) and failed.
C4_Witness ==
    /\ conv.op = "into_int"
    /\ jv.arm = "Bool"
    /\ jv.val = TRUE
    /\ IsErr(conv.res)

---------------------------------------------------------------------------
(* Specification SpecDispatch: the call and field families run against a   *)
(* runtime whose entries return any value of their type and may leave an   *)
(* exception pending.                                                      *)

CallOps == {"call_method", "call_nonvirtual_method", "call_static_method"}

GetOps == {"get_field", "get_static_field"}

SetOps == {"set_field", "set_static_field"}

\* The record of one finished operation: what it was given, the value the
\* raw entry returned (0 when none was invoked), the raw entries it invoked
\* in order, its result, and the runtime's flag after it.
Done(op, kind, num_args, given, arg, result, out, pending) ==
    [op |-> op, kind |-> kind, num_args |-> num_args, given |-> given,
     arg |-> arg, result |-> IF out.raw = <<>> THEN 0 ELSE result,
     raw |-> out.raw, res |-> out.res,
     pending |-> pending]

DispatchInit == ValueIdle /\ DispatchIdle /\ CastIdle /\ ArrayIdle
    /\ CodeIdle /\ ExcIdle /\ StrIdle /\ LookupIdle /\ MangleIdle

CallMethod ==
    \E ret \in JType, n \in 0..MaxArgs, given \in 0..MaxArgs :
      LET id == JMethodID_new(1, ret, n).val
          entry == call_method_dispatch(ret).entry
      IN  \E result \in RawReturns(RawReturnKind(entry)), thrown \in BOOLEAN :
            LET pending == exc \/ thrown
                out == call_method(id, given, result, pending)
            IN  /\ (out.raw = <<>>) => ~thrown
                /\ exc' = pending
                /\ last' = Done("call_method", ret, n, given, "-", result, out, pending)
                /\ UNCHANGED <<valueVars, castVars, arrayVars,
                 codeVars, lookupVars, mangleVars,
                 excVars, strVars>>

CallNonvirtualMethod ==
    \E ret \in JType, n \in 0..MaxArgs, given \in 0..MaxArgs :
      LET id == JMethodID_new(1, ret, n).val
          entry == call_nonvirtual_method_dispatch(ret).entry
      IN  \E result \in RawReturns(RawReturnKind(entry)), thrown \in BOOLEAN :
            LET pending == exc \/ thrown
                out == call_nonvirtual_method(id, given, result, pending)
            IN  /\ (out.raw = <<>>) => ~thrown
                /\ exc' = pending
                /\ last' = Done("call_nonvirtual_method", ret, n, given, "-",
                                result, out, pending)
                /\ UNCHANGED <<valueVars, castVars, arrayVars,
                 codeVars, lookupVars, mangleVars,
                 excVars, strVars>>

CallStaticMethod ==
    \E ret \in JType, n \in 0..MaxArgs, given \in 0..MaxArgs :
      LET id == JMethodID_new(1, ret, n).val
          entry == call_static_method_dispatch(ret).entry
      IN  \E result \in RawReturns(RawReturnKind(entry)), thrown \in BOOLEAN :
            LET pending == exc \/ thrown
                out == call_static_method(id, given, result, pending)
            IN  /\ (out.raw = <<>>) => ~thrown
                /\ exc' = pending
                /\ last' = Done("call_static_method", ret, n, given, "-",
                                result, out, pending)
                /\ UNCHANGED <<valueVars, castVars, arrayVars,
                 codeVars, lookupVars, mangleVars,
                 excVars, strVars>>

GetField ==
    \E ty \in JNonVoidType :
      LET id == JFieldID_new(1, ty).val
          entry == get_field_dispatch(ty).entry
      IN  \E result \in RawReturns(RawReturnKind(entry)), thrown \in BOOLEAN :
            LET pending == exc \/ thrown
                out == get_field(id, result)
            IN  /\ exc' = pending
                /\ last' = Done("get_field", ty, 0, 0, "-", result, out, pending)
                /\ UNCHANGED <<valueVars, castVars, arrayVars,
                 codeVars, lookupVars, mangleVars,
                 excVars, strVars>>

GetStaticField ==
    \E ty \in JNonVoidType :
      LET id == JFieldID_new(1, ty).val
          entry == get_static_field_dispatch(ty).entry
      IN  \E result \in RawReturns(RawReturnKind(entry)), thrown \in BOOLEAN :
            LET pending == exc \/ thrown
                out == get_static_field(id, result)
            IN  /\ exc' = pending
                /\ last' = Done("get_static_field", ty, 0, 0, "-", result, out, pending)
                /\ UNCHANGED <<valueVars, castVars, arrayVars,
                 codeVars, lookupVars, mangleVars,
                 excVars, strVars>>

SetField ==
    \E ty \in JNonVoidType, arm \in JValueArms :
      \E v \in Payloads(arm), thrown \in BOOLEAN :
        LET id == JFieldID_new(1, ty).val
            pending == exc \/ thrown
            out == set_field(id, JValue(arm, v))
        IN  /\ (out.raw = <<>>) => ~thrown
            /\ exc' = pending
            /\ last' = Done("set_field", ty, 0, 0, arm, 0, out, pending)
            /\ UNCHANGED <<valueVars, castVars, arrayVars,
                 codeVars, lookupVars, mangleVars,
                 excVars, strVars>>

SetStaticField ==
    \E ty \in JNonVoidType, arm \in JValueArms :
      \E v \in Payloads(arm), thrown \in BOOLEAN :
        LET id == JFieldID_new(1, ty).val
            pending == exc \/ thrown
            out == set_static_field(id, JValue(arm, v))
        IN  /\ (out.raw = <<>>) => ~thrown
            /\ exc' = pending
            /\ last' = Done("set_static_field", ty, 0, 0, arm, 0, out, pending)
            /\ UNCHANGED <<valueVars, castVars, arrayVars,
                 codeVars, lookupVars, mangleVars,
                 excVars, strVars>>

ExceptionCheck ==
    /\ last' = Done("exception_check", "-", 0, 0, "-", 0,
                    [raw |-> <<"exception_check">>,
                     res |-> Ok(exception_check(exc))], exc)
    /\ UNCHANGED <<exc, valueVars, castVars, arrayVars,
                 codeVars, lookupVars, mangleVars,
                 excVars, strVars>>

ExceptionClear ==
    LET out == exception_clear(exc)
    IN  /\ exc' = IF IsOk(out.res) THEN FALSE ELSE exc
        /\ last' = Done("exception_clear", "-", 0, 0, "-", 0, out, exc')
        /\ UNCHANGED <<valueVars, castVars, arrayVars,
                 codeVars, lookupVars, mangleVars,
                 excVars, strVars>>

\* JNIEnv::new_object, given the number of arguments supplied and the object
\* the raw constructor entry returns.
new_object(id, n_args, obj) ==
    [raw |-> <<"new_object">>,
     res |-> IF obj = NULL
             THEN Err(Error_new("Couldn't create new object", JNI_ERR))
             ELSE smart_new("JObject", obj)]

\* A constructor id declares n parameters and the caller supplies given.
NewObject ==
    \E n \in 0..MaxArgs, given \in 0..MaxArgs :
      \E obj \in 0..MaxPtr, thrown \in BOOLEAN :
        LET id == JMethodID_new(1, "Void", n).val
            pending == exc \/ thrown
            out == new_object(id, given, obj)
        IN  /\ (out.raw = <<>>) => ~thrown
            /\ exc' = pending
            /\ last' = Done("new_object", "Void", n, given, "-", obj, out, pending)
            /\ UNCHANGED <<valueVars, castVars, arrayVars, codeVars, lookupVars,
                           mangleVars, excVars, strVars>>

DispatchNext ==
    \/ CallMethod
    \/ CallNonvirtualMethod
    \/ CallStaticMethod
    \/ GetField
    \/ GetStaticField
    \/ SetField
    \/ SetStaticField
    \/ NewObject
    \/ ExceptionCheck
    \/ ExceptionClear

SpecDispatch == DispatchInit /\ [][DispatchNext]_vars

\* C1: a call_method, call_nonvirtual_method or call_static_method given
\* as many arguments as the MethodID declares returns Err whenever an
\* exception is pending after the raw call and Ok otherwise, and after an
\* Err the flag is still set, so exception_check() then returns true.
C1_CallResultFollowsFlag ==
    (last.op \in CallOps /\ last.given = last.num_args) =>
        /\ last.pending => IsErr(last.res)
        /\ ~last.pending => IsOk(last.res)
        /\ IsErr(last.res) => exception_check(exc)

\* The JValue arm that carries a value of the given kind.
ArmOfKind(kind) == IF kind = "Boolean" THEN "Bool" ELSE kind

\* The raw entries of an operation other than its exception_check.
DispatchEntries(raw) == SelectSeq(raw, LAMBDA e : e # "exception_check")

\* C5: each call or get invokes exactly one raw dispatch entry, the one of
\* its family for the kind recorded in the id; when no exception is pending
\* the operation is Ok and the value's arm is that kind, a null pointer
\* from an Object entry giving Ok(Object(None)) and a Void method Ok(None).
C5_OneEntryPerKind ==
    ((last.op \in CallOps /\ last.given = last.num_args) \/ last.op \in GetOps) =>
        /\ Len(DispatchEntries(last.raw)) = 1
        /\ RawFamily(DispatchEntries(last.raw)[1]) = last.op
        /\ RawReturnKind(DispatchEntries(last.raw)[1]) = last.kind
        /\ ~last.pending =>
              /\ IsOk(last.res)
              /\ LET v == IF last.op \in GetOps THEN Some(last.res.val)
                           ELSE last.res.val
                 IN  /\ (last.kind = "Void") <=> (v = None)
                     /\ v # None => v[1].arm = ArmOfKind(last.kind)
                     /\ (last.kind = "Object" /\ last.result = NULL) =>
                            v[1].val = None

\* C10: set_field and set_static_field return Err whenever an exception is
\* pending after the raw field-set call, and Ok only when none is.
C10_SetChecksException ==
    (last.op \in SetOps /\ last.raw # <<>>) =>
        /\ last.pending => IsErr(last.res)
        /\ IsOk(last.res) => ~last.pending

---------------------------------------------------------------------------
(* Specification SpecCast: the caller constructs handles and ids from raw  *)
(* pointers, casts the handles it owns up and down, and drops them.        *)

\* The most handles the caller owns at a time.
MaxLive == 1

CastInit == ValueIdle /\ DispatchIdle /\ CastIdle /\ ArrayIdle
    /\ CodeIdle /\ ExcIdle /\ StrIdle /\ LookupIdle /\ MangleIdle

\* When a by-value downcast is applied to the handle the preceding by-value
\* downcast returned, the kind that handle had before it; "-" otherwise.
PriorKind(op, from, ptr) ==
    IF /\ op = "downcast"
       /\ castOp.op = "downcast"
       /\ IsOk(castOp.res)
       /\ castOp.res.val = Handle(from, ptr)
    THEN castOp.from
    ELSE "-"

\* The record of one constructor or cast: the kind asked for, the kind of
\* the handle it was applied to ("-" for a constructor), the pointer it was
\* given, and what it returned.
Cast(op, kind, from, ptr, res) ==
    [op |-> op, kind |-> kind, from |-> from, ptr |-> ptr, res |-> res,
     via |-> PriorKind(op, from, ptr)]

\* $x::new(ptr) for any of the handle kinds.
NewHandle ==
    /\ Cardinality(live) < MaxLive
    /\ \E kind \in HandleKinds, ptr \in 0..MaxPtr :
         LET res == smart_new(kind, ptr)
         IN  /\ live' = IF IsOk(res) THEN live \cup {res.val} ELSE live
             /\ castOp' = Cast("new", kind, "-", ptr, res)
    /\ UNCHANGED <<valueVars, dispatchVars, arrayVars,
                 codeVars, lookupVars, mangleVars,
                 excVars, strVars>>

NewMethodID ==
    /\ \E id \in {NULL, 1}, ret \in JType, num_args \in {0, MaxArgs} :
         castOp' = Cast("JMethodID::new", "JMethodID", "-", id,
                        JMethodID_new(id, ret, num_args))
    /\ UNCHANGED <<live, valueVars, dispatchVars, arrayVars,
                 codeVars, lookupVars, mangleVars,
                 excVars, strVars>>

NewFieldID ==
    /\ \E id \in {NULL, 1}, ty \in JNonVoidType :
         castOp' = Cast("JFieldID::new", "JFieldID", "-", id, JFieldID_new(id, ty))
    /\ UNCHANGED <<live, valueVars, dispatchVars, arrayVars,
                 codeVars, lookupVars, mangleVars,
                 excVars, strVars>>

\* h.upcast(env) by value: h is consumed, the handle returned is owned.
Upcast ==
    /\ \E h \in live, y \in HandleKinds :
         /\ <<h.kind, y>> \in Upcasts
         /\ LET out == upcast(h, y)
            IN  /\ live' = IF IsOk(out.res) THEN (live \ {h}) \cup {out.res.val}
                           ELSE live \ {h}
                /\ castOp' = Cast("upcast", y, h.kind, h.backing_ptr, out.res)
                /\ exc' = (exc \/ out.thrown)
    /\ UNCHANGED <<valueVars, last, arrayVars,
                 codeVars, lookupVars, mangleVars,
                 excVars, strVars>>

UpcastRaw ==
    /\ \E h \in live, y \in HandleKinds :
         /\ <<h.kind, y>> \in Upcasts
         /\ LET res == upcast_raw(h, y)
            IN  /\ live' = IF IsOk(res) THEN (live \ {h}) \cup {res.val}
                           ELSE live \ {h}
                /\ castOp' = Cast("upcast_raw", y, h.kind, h.backing_ptr, res)
    /\ UNCHANGED <<valueVars, dispatchVars, arrayVars,
                 codeVars, lookupVars, mangleVars,
                 excVars, strVars>>

\* (&h).upcast(env): h stays owned, the result borrows it.
UpcastRef ==
    /\ \E h \in live, y \in HandleKinds :
         /\ <<h.kind, y>> \in Upcasts
         /\ castOp' = Cast("upcast_ref", y, h.kind, h.backing_ptr, upcast_ref(h, y))
    /\ UNCHANGED <<live, valueVars, dispatchVars, arrayVars,
                 codeVars, lookupVars, mangleVars,
                 excVars, strVars>>

UpcastRawRef ==
    /\ \E h \in live, y \in HandleKinds :
         /\ <<h.kind, y>> \in Upcasts
         /\ castOp' = Cast("upcast_raw_ref", y, h.kind, h.backing_ptr,
                           Ok(upcast_raw_ref(h, y)))
    /\ UNCHANGED <<live, valueVars, dispatchVars, arrayVars,
                 codeVars, lookupVars, mangleVars,
                 excVars, strVars>>

Downcast ==
    /\ \E h \in live, y \in HandleKinds :
         /\ <<h.kind, y>> \in Extends
         /\ LET res == downcast(h, y)
            IN  /\ live' = IF IsOk(res) THEN (live \ {h}) \cup {res.val}
                           ELSE live \ {h}
                /\ castOp' = Cast("downcast", y, h.kind, h.backing_ptr, res)
    /\ UNCHANGED <<valueVars, dispatchVars, arrayVars,
                 codeVars, lookupVars, mangleVars,
                 excVars, strVars>>

DowncastRef ==
    /\ \E h \in live, y \in HandleKinds :
         /\ <<h.kind, y>> \in Extends
         /\ castOp' = Cast("downcast_ref", y, h.kind, h.backing_ptr,
                           Ok(downcast_ref(h, y)))
    /\ UNCHANGED <<live, valueVars, dispatchVars, arrayVars,
                 codeVars, lookupVars, mangleVars,
                 excVars, strVars>>

\* A handle goes out of scope.
DropHandle ==
    /\ \E h \in live :
         /\ live' = live \ {h}
         /\ castOp' = Cast("drop", h.kind, h.kind, h.backing_ptr, Ok("()"))
    /\ UNCHANGED <<valueVars, dispatchVars, arrayVars,
                 codeVars, lookupVars, mangleVars,
                 excVars, strVars>>

CastNext ==
    \/ NewHandle
    \/ NewMethodID
    \/ NewFieldID
    \/ Upcast
    \/ UpcastRaw
    \/ UpcastRef
    \/ UpcastRawRef
    \/ Downcast
    \/ DowncastRef
    \/ DropHandle

SpecCast == CastInit /\ [][CastNext]_vars

\* The class the runtime resolves from a handle kind's declared binary name.
DeclaredClass(kind) == RawFindClass(java_name_literal(kind))

\* C2: a by-value upcast of an owned handle to a declared descendant kind
\* returns Ok with a handle of that kind around the same pointer exactly
\* when the runtime finds the handle's live class assignable to the class
\* resolved from the kind's declared binary name, and an Err otherwise.
C2_UpcastIffAssignable ==
    castOp.op = "upcast" =>
        LET target     == DeclaredClass(castOp.kind)
            assignable == /\ target # NULL
                          /\ RawIsAssignableFrom(RawGetObjectClass(castOp.ptr), target)
        IN  /\ assignable =>
                /\ IsOk(castOp.res)
                /\ castOp.res.val = Handle(castOp.kind, castOp.ptr)
            /\ ~assignable => IsErr(castOp.res)

ConstructorOps == {"new", "JMethodID::new", "JFieldID::new"}

CastOps ==
    {"upcast", "upcast_raw", "upcast_ref", "upcast_raw_ref", "downcast",
     "downcast_ref"}

\* The pointer inside a handle, a JMethodID or a JFieldID.
WrappedPtr(w) ==
    IF "backing_ptr" \in DOMAIN w THEN w.backing_ptr ELSE w.real_id

\* C3: every handle the caller owns wraps a non-null pointer; a constructor
\* given the null pointer returns a NullPointer error and given any other
\* pointer a wrapper around exactly that pointer; a cast never produces a
\* handle whose pointer is null or differs from the one it was applied to.
C3_NonNullWrappers ==
    /\ \A h \in live : h.backing_ptr # NULL
    /\ castOp.op \in ConstructorOps =>
          IF castOp.ptr = NULL
          THEN IsErr(castOp.res) /\ castOp.res.err.variant = "NullPointer"
          ELSE IsOk(castOp.res) /\ WrappedPtr(castOp.res.val) = castOp.ptr
    /\ (castOp.op \in CastOps /\ IsOk(castOp.res)) =>
          /\ WrappedPtr(castOp.res.val) = castOp.ptr
          /\ castOp.ptr # NULL

\* A handle obtained by a downcast is owned, and wraps the pointer of the
\* handle that was cast.
C3_Witness ==
    /\ castOp.op = "downcast"
    /\ IsOk(castOp.res)
    /\ castOp.res.val \in live
    /\ castOp.from # castOp.kind

\* C19: every declared downcast, by value or on a reference, succeeds and
\* wraps the pointer of the handle it was applied to; and a handle of an
\* array kind downcast to JArray and then to JObject is the handle its direct
\* downcast to JObject gives.
C19_DowncastCommutes ==
    /\ castOp.op \in {"downcast", "downcast_ref"} =>
          /\ IsOk(castOp.res)
          /\ castOp.res.val = Handle(castOp.kind, castOp.ptr)
    /\ (castOp.op = "downcast" /\ castOp.via \in ArrayHandleKinds) =>
          /\ castOp.from = "JArray"
          /\ castOp.kind = "JObject"
          /\ <<castOp.via, "JObject">> \in Extends
          /\ castOp.res = downcast(Handle(castOp.via, castOp.ptr), "JObject")

\* A JByteArray handle was downcast to JArray and that handle to JObject.
C19_Witness ==
    /\ castOp.op = "downcast"
    /\ castOp.via = "JByteArray"
    /\ castOp.from = "JArray"
    /\ castOp.kind = "JObject"
    /\ IsOk(castOp.res)
    /\ castOp.res.val \in live

\* C20: upcast on a reference returns Err whenever the object's live class is
\* not assignable to the class of the target kind, and returns the
\* reinterpreted reference only when it is.
C20_UpcastRefChecked ==
    castOp.op = "upcast_ref" =>
        LET target == DeclaredClass(castOp.kind)
            assignable ==
                /\ target # NULL
                /\ RawIsAssignableFrom(RawGetObjectClass(castOp.ptr), target)
        IN  /\ ~assignable => IsErr(castOp.res)
            /\ IsOk(castOp.res) =>
                  /\ assignable
                  /\ castOp.res.val = Handle(castOp.kind, castOp.ptr)

---------------------------------------------------------------------------
(* Specification SpecArray: the caller creates a primitive array, asks for *)
(* held and critical views, writes through them, releases them, and reads  *)
(* and writes regions.  The caller keeps to what the unsafe pointers       *)
(* require: a slice of the array's own kind that it hands back is a view   *)
(* of that array obtained from the matching request and still open, it     *)
(* writes only through open views, and regions lie inside the array.       *)

ArrayInit == ValueIdle /\ DispatchIdle /\ CastIdle /\ ArrayIdle
    /\ CodeIdle /\ ExcIdle /\ StrIdle /\ LookupIdle /\ MangleIdle

RequestOps == {"get_native_array_elements", "get_primitive_array_critical"}

ReleaseOps == {"release_native_array_elements", "release_primitive_array_critical"}

\* The runtime state the array operations work on.
Runtime == [arrays |-> arrays, bufs |-> bufs]

\* The JNativeArray the caller holds for array pointer a.
ArrayHandle(a) ==
    [jtype |-> arrays[a].jtype,
     handle |-> Handle(array_handle_kind(arrays[a].jtype), a)]

\* The element kind of the slice or vector the caller builds over its own
\* memory to pass with an array of the given kind.
OtherKind(ty) == IF ty = "Byte" THEN "Int" ELSE "Byte"

\* A slice over the caller's own memory.
ForeignSlice(ty) == JNativeSlice(ty, NULL, 0)

\* The lengths of the arrays the caller creates.
ArrayLens == {0, MaxLen}

\* What the runtime stores through the is_copy pointer: the runtime
\* modelled hands out a copy for a held view and pins the elements for a
\* critical one.
HeldIsCopy == {TRUE}

CriticalIsCopy == {FALSE}

\* For a view request and a region read: the release the operation before
\* was, if it was one that reached the runtime.
JustReleased(op) ==
    IF /\ op \in RequestOps \cup {"get_native_array_region"}
       /\ arrOp.op \in ReleaseOps /\ arrOp.raw # <<>>
    THEN [op |-> arrOp.op, mode |-> arrOp.mode]
    ELSE NoRelease

\* The record of one finished array operation: the array and its element
\* kind, the kind and pointer of the slice or vector involved, the release
\* mode, the region read, the elements seen through the view when it is
\* written or released, the raw entries invoked, the result, and for a
\* request or a region read the release that came just before.
ArrDone(op, arr, jtype, sty, ptr, mode, start, len, data, out) ==
    [op |-> op, arr |-> arr, jtype |-> jtype, sty |-> sty, ptr |-> ptr,
     mode |-> mode, start |-> start, len |-> len, data |-> data,
     raw |-> out.raw, res |-> out.res, after |-> JustReleased(op)]

\* The caller drops the array it has, once no view of it is left, and
\* creates another.
NewNativeArray ==
    /\ slices = {}
    /\ \A b \in DOMAIN bufs : ~bufs[b].open
    /\ \E len \in ArrayLens, ty \in JNativeType, oom \in BOOLEAN :
         LET out == new_native_array(Runtime, len, ty, oom)
         IN  /\ arrays' = out.rt.arrays
             /\ bufs' = out.rt.bufs
             /\ arrOp' = ArrDone("new_native_array",
                                 IF IsOk(out.res) THEN out.res.val.handle.backing_ptr
                                 ELSE NULL,
                                 ty, "-", NULL, "-", 0, 0, <<>>, out)
    /\ UNCHANGED <<slices, valueVars, dispatchVars, castVars,
                 codeVars, lookupVars, mangleVars,
                 excVars, strVars>>

GetNativeArrayElements ==
    /\ \E a \in 1..Len(arrays), is_copy \in HeldIsCopy :
         LET out == get_native_array_elements(Runtime, ArrayHandle(a), is_copy)
         IN  /\ arrays' = out.rt.arrays
             /\ bufs' = out.rt.bufs
             /\ slices' = IF IsOk(out.res) THEN slices \cup {out.res.val} ELSE slices
             /\ arrOp' = ArrDone("get_native_array_elements", a, arrays[a].jtype,
                                 "-", IF IsOk(out.res) THEN out.res.val.ptr ELSE NULL,
                                 "-", 0, 0, <<>>, out)
    /\ UNCHANGED <<valueVars, dispatchVars, castVars,
                 codeVars, lookupVars, mangleVars,
                 excVars, strVars>>

GetPrimitiveArrayCritical ==
    /\ \E a \in 1..Len(arrays), is_copy \in CriticalIsCopy :
         LET out == get_primitive_array_critical(Runtime, ArrayHandle(a), is_copy)
         IN  /\ arrays' = out.rt.arrays
             /\ bufs' = out.rt.bufs
             /\ slices' = IF IsOk(out.res) THEN slices \cup {out.res.val} ELSE slices
             /\ arrOp' = ArrDone("get_primitive_array_critical", a, arrays[a].jtype,
                                 "-", IF IsOk(out.res) THEN out.res.val.ptr ELSE NULL,
                                 "-", 0, 0, <<>>, out)
    /\ UNCHANGED <<valueVars, dispatchVars, castVars,
                 codeVars, lookupVars, mangleVars,
                 excVars, strVars>>

\* The caller writes 1, 2, .. through a view it holds.
WriteSlice ==
    /\ \E s \in slices :
         /\ bufs[s.ptr].open
         /\ s.len > 0
         /\ LET rt == RawWrite(Runtime, s.ptr, Iota(s.len))
            IN  /\ arrays' = rt.arrays
                /\ bufs' = rt.bufs
                /\ arrOp' = ArrDone("write", bufs[s.ptr].arr, s.jtype, s.jtype, s.ptr,
                                    "-", 0, 0, Iota(s.len),
                                    [raw |-> <<>>, res |-> Ok("()")])
    /\ UNCHANGED <<slices, valueVars, dispatchVars, castVars,
                 codeVars, lookupVars, mangleVars,
                 excVars, strVars>>

\* The slice is passed by value, so the caller no longer holds it after.
ReleaseNativeArrayElements ==
    /\ \E a \in 1..Len(arrays), mode \in ReleaseMode :
       \E s \in slices \cup {ForeignSlice(OtherKind(arrays[a].jtype))} :
         /\ s.jtype = arrays[a].jtype =>
               /\ s \in slices
               /\ bufs[s.ptr].open /\ bufs[s.ptr].arr = a /\ ~bufs[s.ptr].critical
         /\ LET out == release_native_array_elements(Runtime, ArrayHandle(a), s, mode)
            IN  /\ arrays' = out.rt.arrays
                /\ bufs' = out.rt.bufs
                /\ slices' = slices \ {s}
                /\ arrOp' = ArrDone("release_native_array_elements", a,
                                    arrays[a].jtype, s.jtype, s.ptr, mode, 0, 0,
                                    IF s.ptr # NULL /\ bufs[s.ptr].open
                                    THEN BufContents(Runtime, s.ptr) ELSE <<>>,
                                    out)
    /\ UNCHANGED <<valueVars, dispatchVars, castVars,
                 codeVars, lookupVars, mangleVars,
                 excVars, strVars>>

\* The slice is passed by reference; the caller drops it once the runtime
\* has freed the buffer behind it.
ReleasePrimitiveArrayCritical ==
    /\ \E a \in 1..Len(arrays), mode \in ReleaseMode :
       \E s \in slices \cup {ForeignSlice(OtherKind(arrays[a].jtype))} :
         /\ s.jtype = arrays[a].jtype =>
               /\ s \in slices
               /\ bufs[s.ptr].open /\ bufs[s.ptr].arr = a /\ bufs[s.ptr].critical
         /\ LET out == release_primitive_array_critical(Runtime, ArrayHandle(a), s, mode)
            IN  /\ arrays' = out.rt.arrays
                /\ bufs' = out.rt.bufs
                /\ slices' = IF s.ptr # NULL /\ ~out.rt.bufs[s.ptr].open
                             THEN slices \ {s} ELSE slices
                /\ arrOp' = ArrDone("release_primitive_array_critical", a,
                                    arrays[a].jtype, s.jtype, s.ptr, mode, 0, 0,
                                    IF s.ptr # NULL /\ bufs[s.ptr].open
                                    THEN BufContents(Runtime, s.ptr) ELSE <<>>,
                                    out)
    /\ UNCHANGED <<valueVars, dispatchVars, castVars,
                 codeVars, lookupVars, mangleVars,
                 excVars, strVars>>

GetNativeArrayRegion ==
    /\ \E a \in 1..Len(arrays), start \in {0, 1}, len \in 0..MaxLen :
         /\ start + len = Len(arrays[a].data)
         /\ LET out == get_native_array_region(Runtime, ArrayHandle(a), start, len)
            IN  /\ arrays' = out.rt.arrays
                /\ bufs' = out.rt.bufs
                /\ arrOp' = ArrDone("get_native_array_region", a, arrays[a].jtype,
                                    "-", NULL, "-", start, len, <<>>, out)
    /\ UNCHANGED <<slices, valueVars, dispatchVars, castVars,
                 codeVars, lookupVars, mangleVars,
                 excVars, strVars>>

\* What n elements of never-written spare capacity may hold: zeroes, or
\* what an earlier vector left there.
Uninit(n) == {Zeros(n), Iota(n)}

\* The caller passes a vector of the array's element kind or of another and
\* asks for the whole array to be set from it.  The vector holds 1, 2, ..,
\* held, where held is the array's length or zero; the rest of its buffer
\* is spare capacity.
SetNativeArrayRegion ==
    /\ \E a \in 1..Len(arrays), start \in {0}, len \in 0..MaxLen :
       \E ty \in {arrays[a].jtype, OtherKind(arrays[a].jtype)},
          held \in {len, 0}, spare \in Uninit(len) :
         /\ len = Len(arrays[a].data)
         /\ held = len => spare = Zeros(len)
         /\ LET vec == JNativeVec(ty, Vec(held, Iota(held)
                                   \o SubSeq(spare, held + 1, len)))
                out == set_native_array_region(Runtime, ArrayHandle(a), start, len, vec)
            IN  /\ arrays' = out.rt.arrays
                /\ bufs' = out.rt.bufs
                /\ arrOp' = ArrDone("set_native_array_region", a, arrays[a].jtype,
                                    ty, NULL, "-", start, len, VecContents(vec.vec), out)
    /\ UNCHANGED <<slices, valueVars, dispatchVars, castVars,
                 codeVars, lookupVars, mangleVars,
                 excVars, strVars>>

ArrayNext ==
    \/ NewNativeArray
    \/ GetNativeArrayElements
    \/ GetPrimitiveArrayCritical
    \/ WriteSlice
    \/ ReleaseNativeArrayElements
    \/ ReleasePrimitiveArrayCritical
    \/ GetNativeArrayRegion
    \/ SetNativeArrayRegion

SpecArray == ArrayInit /\ [][ArrayNext]_vars

KindCheckedOps == ReleaseOps \cup {"set_native_array_region"}

\* C6: release_native_array_elements, release_primitive_array_critical and
\* set_native_array_region compare the array's element kind with the kind
\* of the slice or vector given: when the kinds differ the operation
\* returns Err and invokes no raw entry, when they match it invokes
\* exactly the raw entry of its own family for that kind.
C6_KindCheckFirst ==
    arrOp.op \in KindCheckedOps =>
        IF arrOp.jtype # arrOp.sty
        THEN IsErr(arrOp.res) /\ arrOp.raw = <<>>
        ELSE /\ Len(arrOp.raw) = 1
             /\ ArrayEntryFamily(arrOp.raw[1]) = arrOp.op
             /\ ArrayEntryKind(arrOp.raw[1]) =
                    IF arrOp.op = "release_primitive_array_critical" THEN "any"
                    ELSE arrOp.jtype

\* A release is refused because the slice's kind differs from the array's.
C6_Witness ==
    /\ arrOp.op = "release_native_array_elements"
    /\ arrOp.jtype # arrOp.sty
    /\ IsErr(arrOp.res)
    /\ arrOp.raw = <<>>

\* C7: releasing a held view with CopyFree leaves the array holding the
\* elements v the view held, and get_native_array_region(arr, 0, n) right
\* after returns Ok with a vector of the array's kind that contains exactly
\* those n elements in order.
C7_RegionAfterCopyBack ==
    /\ (/\ arrOp.op = "release_native_array_elements"
        /\ arrOp.mode = "CopyFree"
        /\ IsOk(arrOp.res)) =>
            arrays[arrOp.arr].data = arrOp.data
    /\ (/\ arrOp.op = "get_native_array_region"
        /\ arrOp.after = [op |-> "release_native_array_elements", mode |-> "CopyFree"]
        /\ arrOp.start = 0
        /\ arrOp.len = Len(arrays[arrOp.arr].data)) =>
            /\ IsOk(arrOp.res)
            /\ arrOp.res.val.jtype = arrays[arrOp.arr].jtype
            /\ VecContents(arrOp.res.val.vec) = arrays[arrOp.arr].data

\* The open views of array a among the buffers bs.
ViewsOf(bs, a) == {b \in DOMAIN bs : bs[b].open /\ bs[b].arr = a}

AtMostOneView(as, bs) == \A a \in 1..Len(as) : Cardinality(ViewsOf(bs, a)) <= 1

C9_ReleaseClosesView ==
    /\ (arrOp.op \in ReleaseOps /\ arrOp.raw # <<>>) =>
            IsOk(arrOp.res) /\ ~bufs[arrOp.ptr].open
    /\ (arrOp.op \in RequestOps /\ arrOp.after.op \in ReleaseOps) =>
            IsOk(arrOp.res)

FreeingModes == {"CopyFree", "Abort"}

\* C9 as the code has it: a release with CopyFree or Abort closes the view
\* and a request that follows it succeeds; a release with Commit leaves
\* the view open.
C9_FreeingReleaseClosesView ==
    /\ (arrOp.op \in ReleaseOps /\ arrOp.raw # <<>>) =>
            /\ IsOk(arrOp.res)
            /\ bufs[arrOp.ptr].open <=> (arrOp.mode \notin FreeingModes)
    /\ (arrOp.op \in RequestOps /\ arrOp.after.mode \in FreeingModes) =>
            IsOk(arrOp.res)

\* A view is requested, and granted, right after a release that freed one.
C9_Witness ==
    /\ arrOp.op \in RequestOps
    /\ arrOp.after.mode \in FreeingModes
    /\ IsOk(arrOp.res)
    /\ bufs[arrOp.ptr].open

---------------------------------------------------------------------------
(* Operations whose raw entry returns a result code  (src/src/env.rs) *)

JNI_OK == 0

JNI_EDETACHED == -2

JNI_EVERSION == -3

JNI_ENOMEM == -4

JNI_EEXIST == -5

JNI_EINVAL == -6

\* The codes a raw entry can return.
ResultCodes ==
    {JNI_OK, JNI_ERR, JNI_EDETACHED, JNI_EVERSION, JNI_ENOMEM, JNI_EEXIST,
     JNI_EINVAL}

\* Error::from(Box<dyn Error>)
Error_from(err) == [variant |-> "Induced", source |-> err]

\* cstr_from_str: a string with an interior NUL has no CString.
cstr_from_str(has_nul) ==
    IF has_nul THEN Err(Error_from("NulError")) ELSE Ok("CString")

\* Each operation below is given the code its raw entry returns and gives
\* back the raw entries invoked and the result.
throw(code) ==
    [raw |-> <<"throw">>,
     res |-> IF code # 0
             THEN Err(Error_new("Could not throw exception", JNI_ERR))
             ELSE Ok("()")]

throw_new(msg_has_nul, code) ==
    LET c_msg == cstr_from_str(msg_has_nul)
    IN  IF IsErr(c_msg) THEN [raw |-> <<>>, res |-> c_msg]
        ELSE [raw |-> <<"throw_new">>,
              res |-> IF code # 0
                      THEN Err(Error_new("Could not throw exception", JNI_ERR))
                      ELSE Ok("()")]

ensure_local_capacity(capacity, code) ==
    [raw |-> <<"ensure_local_capacity">>,
     res |-> IF code # 0
             THEN Err(Error_new(<<"Couldn't ensure local capacity of at least",
                                  capacity>>, code))
             ELSE Ok("()")]

push_local_frame(capacity, code) ==
    [raw |-> <<"push_local_frame">>,
     res |-> IF code # 0
             THEN Err(Error_new(<<"Couldn't push local from with capacity",
                                  capacity>>, code))
             ELSE Ok("()")]

register_natives(code) ==
    [raw |-> <<"register_natives">>,
     res |-> IF code # 0
             THEN Err(Error_new("Couldn't register native methods", code))
             ELSE Ok("()")]

unregister_natives(code) ==
    [raw |-> <<"unregister_natives">>,
     res |-> IF code # 0
             THEN Err(Error_new("Couldn't unregister native methods", code))
             ELSE Ok("()")]

monitor_enter(code) ==
    [raw |-> <<"monitor_enter">>,
     res |-> IF code # 0
             THEN Err(Error_new("Couldn't enter monitor", code))
             ELSE Ok("()")]

monitor_exit(code) ==
    [raw |-> <<"monitor_exit">>,
     res |-> IF code # 0
             THEN Err(Error_new("Couldn't exit monitor", code))
             ELSE Ok("()")]

---------------------------------------------------------------------------
(* Specification SpecCodes: the result-code operations, against a runtime  *)
(* that answers each raw entry with any of its codes.                      *)

\* The largest capacity a caller asks for.
MaxCapacity == 1

CodesInit == ValueIdle /\ DispatchIdle /\ CastIdle /\ ArrayIdle
    /\ CodeIdle /\ ExcIdle /\ StrIdle /\ LookupIdle /\ MangleIdle

CodeDone(op, cap, code, out) ==
    [op |-> op, code |-> code, cap |-> cap, raw |-> out.raw, res |-> out.res]

\* Throw and ThrowNew leave the exception pending when the runtime accepts it.
Throw ==
    /\ \E code \in ResultCodes :
         /\ codeOp' = CodeDone("throw", 0, code, throw(code))
         /\ exc' = (exc \/ code = JNI_OK)
    /\ UNCHANGED <<valueVars, last, castVars, arrayVars, lookupVars, mangleVars,
                 excVars, strVars>>

ThrowNew ==
    /\ \E msg_has_nul \in BOOLEAN, code \in ResultCodes :
         LET out == throw_new(msg_has_nul, code)
         IN  /\ codeOp' = CodeDone("throw_new", 0, code, out)
             /\ exc' = (exc \/ (out.raw # <<>> /\ code = JNI_OK))
    /\ UNCHANGED <<valueVars, last, castVars, arrayVars, lookupVars, mangleVars,
                 excVars, strVars>>

\* EnsureLocalCapacity and PushLocalFrame leave an OutOfMemoryError pending
\* when the runtime refuses.
EnsureLocalCapacity ==
    /\ \E capacity \in 0..MaxCapacity, code \in ResultCodes :
         /\ codeOp' = CodeDone("ensure_local_capacity", capacity, code,
                               ensure_local_capacity(capacity, code))
         /\ exc' = (exc \/ code # JNI_OK)
    /\ UNCHANGED <<valueVars, last, castVars, arrayVars, lookupVars, mangleVars,
                 excVars, strVars>>

PushLocalFrame ==
    /\ \E capacity \in 0..MaxCapacity, code \in ResultCodes :
         /\ codeOp' = CodeDone("push_local_frame", capacity, code,
                               push_local_frame(capacity, code))
         /\ exc' = (exc \/ code # JNI_OK)
    /\ UNCHANGED <<valueVars, last, castVars, arrayVars, lookupVars, mangleVars,
                 excVars, strVars>>

RegisterNatives ==
    /\ \E code \in ResultCodes :
         codeOp' = CodeDone("register_natives", 0, code, register_natives(code))
    /\ UNCHANGED <<valueVars, dispatchVars, castVars, arrayVars, lookupVars,
                   mangleVars,
                 excVars, strVars>>

UnregisterNatives ==
    /\ \E code \in ResultCodes :
         codeOp' = CodeDone("unregister_natives", 0, code,
                            unregister_natives(code))
    /\ UNCHANGED <<valueVars, dispatchVars, castVars, arrayVars, lookupVars,
                   mangleVars,
                 excVars, strVars>>

MonitorEnter ==
    /\ \E code \in ResultCodes :
         codeOp' = CodeDone("monitor_enter", 0, code, monitor_enter(code))
    /\ UNCHANGED <<valueVars, dispatchVars, castVars, arrayVars, lookupVars,
                   mangleVars,
                 excVars, strVars>>

MonitorExit ==
    /\ \E code \in ResultCodes :
         codeOp' = CodeDone("monitor_exit", 0, code, monitor_exit(code))
    /\ UNCHANGED <<valueVars, dispatchVars, castVars, arrayVars, lookupVars,
                   mangleVars,
                 excVars, strVars>>

\* The caller clears the pending exception (JNIEnv::exception_clear).
CodesExceptionClear ==
    /\ exc
    /\ exc' = FALSE
    /\ codeOp' = CodeDone("exception_clear", 0, 0, exception_clear(exc))
    /\ UNCHANGED <<valueVars, last, castVars, arrayVars, lookupVars, mangleVars,
                 excVars, strVars>>

CodesNext ==
    \/ Throw
    \/ ThrowNew
    \/ EnsureLocalCapacity
    \/ PushLocalFrame
    \/ RegisterNatives
    \/ UnregisterNatives
    \/ MonitorEnter
    \/ MonitorExit
    \/ CodesExceptionClear

SpecCodes == CodesInit /\ [][CodesNext]_vars

CodeOps ==
    {"throw", "throw_new", "ensure_local_capacity", "push_local_frame",
     "register_natives", "unregister_natives", "monitor_enter", "monitor_exit"}

\* C11: whenever one of the eight result-code operations reaches its raw
\* entry, it returns Ok exactly when the runtime's code is 0, and otherwise
\* an error carrying exactly the code the runtime returned.
C11_CodePreserved ==
    (codeOp.op \in CodeOps /\ codeOp.raw # <<>>) =>
        /\ IsOk(codeOp.res) <=> codeOp.code = JNI_OK
        /\ codeOp.code # JNI_OK =>
              /\ IsErr(codeOp.res)
              /\ codeOp.res.err.variant = "General"
              /\ codeOp.res.err.code = codeOp.code

---------------------------------------------------------------------------
(* Descriptor metadata and the id lookups  (src/src/mangling.rs, env.rs) *)

\* TypeSignature::java_type: Ok(kind), or Panic for a method signature
\* (unimplemented!()) and for a primitive of unknown name (unreachable!()).
java_type(sig) ==
    CASE sig.tag = "Primitive" ->
            CASE sig.name = <<"b", "o", "o", "l", "e", "a", "n">> -> Ok("Boolean")
              [] sig.name = <<"b", "y", "t", "e">>    -> Ok("Byte")
              [] sig.name = <<"c", "h", "a", "r">>    -> Ok("Char")
              [] sig.name = <<"s", "h", "o", "r", "t">>   -> Ok("Short")
              [] sig.name = <<"i", "n", "t">>     -> Ok("Int")
              [] sig.name = <<"l", "o", "n", "g">>    -> Ok("Long")
              [] sig.name = <<"f", "l", "o", "a", "t">>   -> Ok("Float")
              [] sig.name = <<"d", "o", "u", "b", "l", "e">>  -> Ok("Double")
              [] sig.name = <<"v", "o", "i", "d">>    -> Ok("Void")
              [] OTHER -> Panic("internal error: entered unreachable code")
      [] sig.tag = "Class"  -> Ok("Object")
      [] sig.tag = "Array"  -> Ok("Object")
      [] sig.tag = "Method" -> Panic("not implemented")

\* JType::as_nonvoid
as_nonvoid(ty) == IF ty = "Void" THEN None ELSE Some(ty)

\* A raw lookup entry as the code invokes it, with the descriptor it is sent.
RawLookup(entry, c_sig) == [entry |-> entry, sig |-> c_sig]

\* A lookup that sends whatever descriptor it is given to the raw entry.
method_id_lookup_unvalidated(entry, what, name_has_nul, sig, id) ==
    LET parsed == mangle_class(sig)
    IN  IF IsPanic(parsed) THEN [raw |-> <<>>, res |-> parsed]
        ELSE [raw |-> <<RawLookup(entry, mangled(parsed.val))>>,
              res |-> IF id = NULL THEN Err(Error_new(what, JNI_ERR))
                      ELSE JMethodID_new(id, "Object", 0)]

\* The body shared by get_method_id and get_static_method_id, which differ
\* in the raw entry and the message only.  name_has_nul tells whether the
\* name has an interior NUL; id is the runtime's answer to the raw lookup.
method_id_lookup(entry, what, name_has_nul, sig, id) ==
    LET c_name == cstr_from_str(name_has_nul)
        parsed == mangle_class(sig)
    IN  IF IsErr(c_name) THEN [raw |-> <<>>, res |-> c_name]
        ELSE IF IsPanic(parsed) THEN [raw |-> <<>>, res |-> parsed]
        ELSE IF parsed.val.tag # "Method"
        THEN [raw |-> <<>>,
              res |-> Err(Error_new("Expected method signature", JNI_ERR))]
        ELSE LET num_args == Len(parsed.val.params)
                 ret_ty   == java_type(parsed.val.ret)
             IN  IF IsPanic(ret_ty) THEN [raw |-> <<>>, res |-> ret_ty]
                 ELSE [raw |-> <<RawLookup(entry, mangled(parsed.val))>>,
                       res |-> IF id = NULL
                               THEN Err(Error_new(what, JNI_ERR))
                               ELSE JMethodID_new(id, ret_ty.val, num_args)]

get_method_id(name_has_nul, sig, id) ==
    method_id_lookup("get_method_id", "Couldn't get method id",
                     name_has_nul, sig, id)

get_static_method_id(name_has_nul, sig, id) ==
    method_id_lookup("get_static_method_id", "Couldn't get static method id",
                     name_has_nul, sig, id)

\* The body shared by get_field_id and get_static_field_id.
field_id_lookup(entry, what, name_has_nul, sig, id) ==
    LET c_name == cstr_from_str(name_has_nul)
        parsed == mangle_class(sig)
    IN  IF IsErr(c_name) THEN [raw |-> <<>>, res |-> c_name]
        ELSE IF IsPanic(parsed) THEN [raw |-> <<>>, res |-> parsed]
        ELSE LET kind == java_type(parsed.val)
             IN  IF IsPanic(kind) THEN [raw |-> <<>>, res |-> kind]
                 ELSE IF as_nonvoid(kind.val) = None
                 THEN [raw |-> <<>>,
                       res |-> Panic("Expected field type to be non-void")]
                 ELSE [raw |-> <<RawLookup(entry, mangled(parsed.val))>>,
                       res |-> IF id = NULL
                               THEN Err(Error_new(what, JNI_ERR))
                               ELSE JFieldID_new(id, as_nonvoid(kind.val)[1])]

get_field_id(name_has_nul, sig, id) ==
    field_id_lookup("get_field_id", "Couldn't get field id",
                    name_has_nul, sig, id)

get_static_field_id(name_has_nul, sig, id) ==
    field_id_lookup("get_static_field_id", "Couldn't get static field id",
                    name_has_nul, sig, id)

---------------------------------------------------------------------------
(* Descriptors a caller writes, by their structure.  A type is a primitive *)
(* or dotted class name followed by depth "[]" suffixes; a method is a     *)
(* parenthesised, comma-separated list of types, "->" and a return type.   *)

\* The deepest array nesting a caller writes.
MaxDepth == 1

\* The most parameters a caller writes.
MaxParams == 2

ClassNames == { <<"j", "a", "v", "a", ".", "l", "a", "n", "g", ".", "S", "t", "r", "i", "n", "g">>, <<"a", ".", "B">> }

Type(base, depth) == [base |-> base, depth |-> depth]

AllTypes == {Type(b, k) : b \in PrimitiveNames \cup ClassNames, k \in 0..MaxDepth}

\* The parameter and return types the method descriptors are built from.
ParamTypes ==
    {Type(<<"i", "n", "t">>, 0), Type(<<"l", "o", "n", "g">>, MaxDepth), Type(<<"j", "a", "v", "a", ".", "l", "a", "n", "g", ".", "S", "t", "r", "i", "n", "g">>, 0)}

ReturnTypes ==
    {Type(<<"v", "o", "i", "d">>, 0), Type(<<"c", "h", "a", "r">>, 0), Type(<<"i", "n", "t">>, MaxDepth),
     Type(<<"a", ".", "B">>, 0), Type(<<"j", "a", "v", "a", ".", "l", "a", "n", "g", ".", "S", "t", "r", "i", "n", "g">>, MaxDepth)}

ParamLists == UNION {[1..n -> ParamTypes] : n \in 0..MaxParams}

\* What is written between the parentheses of an empty parameter list.
Pads == {<<>>, <<" ">>}

TypeDesc(t) == [shape |-> "type", params |-> <<>>, ret |-> t, pad |-> <<>>]

MethodDesc(params, ret, pad) ==
    [shape |-> "method", params |-> params, ret |-> ret, pad |-> pad]

MethodDescs ==
    {MethodDesc(ps, r, pad) : ps \in ParamLists, r \in ReturnTypes, pad \in Pads}

RECURSIVE TypeText(_)
TypeText(t) ==
    IF t.depth = 0 THEN t.base
    ELSE TypeText(Type(t.base, t.depth - 1)) \o <<"[", "]">>

RECURSIVE JoinText(_)
JoinText(ps) ==
    IF ps = <<>> THEN <<>>
    ELSE IF Len(ps) = 1 THEN TypeText(ps[1])
    ELSE TypeText(ps[1]) \o <<",", " ">> \o JoinText(Tail(ps))

\* The text of a descriptor.
Text(d) ==
    IF d.shape = "type" THEN TypeText(d.ret)
    ELSE <<"(">> \o (IF d.params = <<>> THEN d.pad ELSE JoinText(d.params))
             \o <<")", " ", "-", ">", " ">> \o TypeText(d.ret)

\* The kind a type stands for: Object for a class or array, the primitive
\* kind otherwise.
KindOf(t) ==
    IF t.depth > 0 \/ t.base \in ClassNames THEN "Object"
    ELSE CASE t.base = <<"b", "o", "o", "l", "e", "a", "n">> -> "Boolean"
           [] t.base = <<"b", "y", "t", "e">>    -> "Byte"
           [] t.base = <<"c", "h", "a", "r">>    -> "Char"
           [] t.base = <<"s", "h", "o", "r", "t">>   -> "Short"
           [] t.base = <<"i", "n", "t">>     -> "Int"
           [] t.base = <<"l", "o", "n", "g">>    -> "Long"
           [] t.base = <<"f", "l", "o", "a", "t">>   -> "Float"
           [] t.base = <<"d", "o", "u", "b", "l", "e">>  -> "Double"
           [] t.base = <<"v", "o", "i", "d">>    -> "Void"

---------------------------------------------------------------------------
(* Specification SpecLookup: the four id lookups, given any descriptor of  *)
(* the sets above, against a runtime that finds the member or does not.    *)

\* The method descriptors with distinct texts: the pad shows in an empty
\* parameter list only.
WrittenMethodDescs == {d \in MethodDescs : d.params # <<>> => d.pad = <<>>}

LookupDescs == {TypeDesc(t) : t \in AllTypes} \cup WrittenMethodDescs

\* The caller has written a descriptor and has not looked anything up yet.
Written(d) ==
    [op |-> "none", desc |-> d, name_has_nul |-> FALSE, id |-> NULL,
     raw |-> <<>>, res |-> Ok("()")]

LookupInit ==
    /\ \E d \in LookupDescs : lookup = Written(d)
    /\ reflected = NoReflected
    /\ ValueIdle /\ DispatchIdle /\ CastIdle /\ ArrayIdle
    /\ CodeIdle /\ ExcIdle /\ StrIdle /\ MangleIdle

LookupDone(op, name_has_nul, id, out) ==
    [op |-> op, desc |-> lookup.desc, name_has_nul |-> name_has_nul,
     id |-> id, raw |-> out.raw, res |-> out.res]

\* The caller writes another descriptor.
WriteDescriptor ==
    /\ \E d \in LookupDescs : lookup' = Written(d)
    /\ reflected' = NoReflected
    /\ UNCHANGED <<valueVars, dispatchVars, castVars, arrayVars, codeVars,
                   mangleVars,
                 excVars, strVars>>

GetMethodID ==
    /\ \E name_has_nul \in BOOLEAN, id \in {NULL, 1} :
         lookup' = LookupDone("get_method_id", name_has_nul, id,
                       get_method_id(name_has_nul, Text(lookup.desc), id))
    /\ reflected' = NoReflected
    /\ UNCHANGED <<valueVars, dispatchVars, castVars, arrayVars, codeVars,
                   mangleVars,
                 excVars, strVars>>

GetStaticMethodID ==
    /\ \E name_has_nul \in BOOLEAN, id \in {NULL, 1} :
         lookup' = LookupDone("get_static_method_id", name_has_nul, id,
                       get_static_method_id(name_has_nul, Text(lookup.desc), id))
    /\ reflected' = NoReflected
    /\ UNCHANGED <<valueVars, dispatchVars, castVars, arrayVars, codeVars,
                   mangleVars,
                 excVars, strVars>>

GetFieldID ==
    /\ \E name_has_nul \in BOOLEAN, id \in {NULL, 1} :
         lookup' = LookupDone("get_field_id", name_has_nul, id,
                       get_field_id(name_has_nul, Text(lookup.desc), id))
    /\ reflected' = NoReflected
    /\ UNCHANGED <<valueVars, dispatchVars, castVars, arrayVars, codeVars,
                   mangleVars,
                 excVars, strVars>>

GetStaticFieldID ==
    /\ \E name_has_nul \in BOOLEAN, id \in {NULL, 1} :
         lookup' = LookupDone("get_static_field_id", name_has_nul, id,
                       get_static_field_id(name_has_nul, Text(lookup.desc), id))
    /\ reflected' = NoReflected
    /\ UNCHANGED <<valueVars, dispatchVars, castVars, arrayVars, codeVars,
                   mangleVars,
                 excVars, strVars>>

---------------------------------------------------------------------------
(* Reading a string  (src/src/env.rs, get_string_chars .. ) *)

Letters ==
    <<"a", "b", "c", "d", "e", "f", "g", "h", "i", "j", "k", "l", "m", "n",
      "o", "p", "q", "r", "s", "t", "u", "v", "w", "x", "y", "z">>

Capitals ==
    <<"A", "B", "C", "D", "E", "F", "G", "H", "I", "J", "K", "L", "M", "N",
      "O", "P", "Q", "R", "S", "T", "U", "V", "W", "X", "Y", "Z">>

\* The UTF-16 code unit of a character of the texts written here.
CharUnit(c) ==
    IF \E i \in DOMAIN Letters : Letters[i] = c
    THEN 96 + (CHOOSE i \in DOMAIN Letters : Letters[i] = c)
    ELSE IF \E i \in DOMAIN Capitals : Capitals[i] = c
    THEN 64 + (CHOOSE i \in DOMAIN Capitals : Capitals[i] = c)
    ELSE CASE c = "." -> 46
           [] c = "/" -> 47
           [] c = ";" -> 59
           [] c = "[" -> 91
           [] c = " " -> 32
           [] OTHER   -> 63

\* The code units the runtime holds for a text.
Units(text) == [i \in 1..Len(text) |-> CharUnit(text[i])]

\* JNIEnv::get_string_chars on a string of the given code units; chars is the
\* buffer pointer the raw entry returns.  The buffer is released after the
\* units are converted.
get_string_chars(chars, units) ==
    IF chars = NULL
    THEN [raw |-> <<"get_string_chars">>,
          res |-> Err(Error_new("Couldn't get string characters", JNI_ERR))]
    ELSE IF \E i \in DOMAIN units : char_from_u32(units[i]) = None
    THEN [raw |-> <<"get_string_chars", "get_string_length">>,
          res |-> Panic("Java returned bad char")]
    ELSE [raw |-> <<"get_string_chars", "get_string_length",
                    "release_string_chars">>,
          res |-> Ok([i \in DOMAIN units |-> char_from_u32(units[i])[1]])]

\* JNIEnv::get_string_utf_chars on a string of the given modified UTF-8 bytes.
get_string_utf_chars(chars, bytes) ==
    IF chars = NULL
    THEN [raw |-> <<"get_string_utf_chars">>,
          res |-> Err(Error_new("Couldn't get string characters", JNI_ERR))]
    ELSE [raw |-> <<"get_string_utf_chars", "get_string_utf_length",
                    "release_string_utf_chars">>,
          res |-> Ok(bytes)]

---------------------------------------------------------------------------
(* Reflection  (src/src/env.rs, from_reflected_method .. to_reflected_field) *)

\* A type name that is never taken for a primitive.
from_name_object(name) == "Object"

\* JType::from_name, on the characters of the name.
from_name(name) ==
    CASE name = Units(<<"v", "o", "i", "d">>)    -> "Void"
      [] name = Units(<<"b", "o", "o", "l", "e", "a", "n">>) -> "Boolean"
      [] name = Units(<<"b", "y", "t", "e">>)    -> "Byte"
      [] name = Units(<<"c", "h", "a", "r">>)    -> "Char"
      [] name = Units(<<"s", "h", "o", "r", "t">>)   -> "Short"
      [] name = Units(<<"i", "n", "t">>)     -> "Int"
      [] name = Units(<<"l", "o", "n", "g">>)    -> "Long"
      [] name = Units(<<"f", "l", "o", "a", "t">>)   -> "Float"
      [] name = Units(<<"d", "o", "u", "b", "l", "e">>)  -> "Double"
      [] OTHER                   -> "Object"

\* The runtime's view of a member's binary descriptor.  A type ends after its
\* primitive letter, after the ";" of a class, or where its element type ends.
RECURSIVE BinaryTypeEnd(_, _)
BinaryTypeEnd(sig, i) ==
    IF sig[i] = "[" THEN BinaryTypeEnd(sig, i + 1)
    ELSE IF sig[i] = "L"
    THEN 1 + CHOOSE j \in i..Len(sig) :
                 sig[j] = ";" /\ \A k \in i..(j - 1) : sig[k] # ";"
    ELSE i + 1

RECURSIVE ParamsFrom(_, _)
ParamsFrom(sig, i) ==
    IF sig[i] = ")" THEN <<>>
    ELSE <<SubSeq(sig, i, BinaryTypeEnd(sig, i) - 1)>>
             \o ParamsFrom(sig, BinaryTypeEnd(sig, i))

\* Method.getParameterCount()
getParameterCount(sig) == Len(ParamsFrom(sig, 2))

RECURSIVE Flatten(_)
Flatten(pieces) ==
    IF pieces = <<>> THEN <<>> ELSE Head(pieces) \o Flatten(Tail(pieces))

\* The binary return type of a method descriptor, the type of a field one.
BinaryType(sig) ==
    IF sig[1] = "("
    THEN SubSeq(sig, Len(Flatten(ParamsFrom(sig, 2))) + 3, Len(sig))
    ELSE sig

\* Class.getName() of the class a binary type names: the keyword of a
\* primitive, the dotted name of a class, the dotted descriptor of an array.
getName(ty) ==
    CASE ty = <<"Z">> -> <<"b", "o", "o", "l", "e", "a", "n">>
      [] ty = <<"B">> -> <<"b", "y", "t", "e">>
      [] ty = <<"C">> -> <<"c", "h", "a", "r">>
      [] ty = <<"S">> -> <<"s", "h", "o", "r", "t">>
      [] ty = <<"I">> -> <<"i", "n", "t">>
      [] ty = <<"J">> -> <<"l", "o", "n", "g">>
      [] ty = <<"F">> -> <<"f", "l", "o", "a", "t">>
      [] ty = <<"D">> -> <<"d", "o", "u", "b", "l", "e">>
      [] ty = <<"V">> -> <<"v", "o", "i", "d">>
      [] ty # <<>> /\ Head(ty) = "[" -> replace(ty, "/", ".")
      [] OTHER -> replace(SubSeq(ty, 2, Len(ty) - 1), "/", ".")

\* The tail of from_reflected_method and from_reflected_field: the object a
\* reflective call returned, or the early return of `?`.
reflective_obj(called) ==
    IF ~IsOk(called.res) THEN called.res
    ELSE IF called.res.val = None THEN Panic("Unexpected void result")
    ELSE LET got == into_obj(called.res.val[1])
         IN  IF IsErr(got) THEN got
             ELSE IF got.val = None THEN Panic("Unexpected null result")
             ELSE Ok(got.val[1])

\* JNIEnv::from_reflected_method.  id is the token the raw entry returns,
\* ret_name the code units of getReturnType().getName() and num_args the
\* value of getParameterCount(); the reflective objects are non-null and no
\* exception is pending.
from_reflected_method(id, ret_name, num_args) ==
    LET get_ret      == unwrap(get_method_id(FALSE, <<"(", ")", " ", "-", ">", " ", "j", "a", "v", "a", ".", "l", "a", "n", "g", ".", "C", "l", "a", "s", "s">>, 1).res)
        get_num_args == unwrap(get_method_id(FALSE, <<"(", ")", " ", "-", ">", " ", "i", "n", "t">>, 1).res)
        get_name     == unwrap(get_method_id(FALSE, <<"(", ")", " ", "-", ">", " ", "j", "a", "v", "a", ".", "l", "a", "n", "g", ".", "S", "t", "r", "i", "n", "g">>, 1).res)
    IN  IF IsPanic(get_ret) THEN get_ret
        ELSE IF IsPanic(get_num_args) THEN get_num_args
        ELSE IF IsPanic(get_name) THEN get_name
        ELSE LET ret_cls == reflective_obj(call_method(get_ret.val, 0, 1, FALSE))
                 ret_nm  == reflective_obj(call_method(get_name.val, 0, 1, FALSE))
                 counted == call_method(get_num_args.val, 0, num_args, FALSE).res
             IN  IF ~IsOk(ret_cls) THEN ret_cls
                 ELSE IF ~IsOk(ret_nm) THEN ret_nm
                 ELSE IF ~IsOk(counted) THEN counted
                 ELSE IF counted.val = None THEN Panic("Unexpected void result")
                 ELSE LET n     == into_int(counted.val[1])
                          chars == get_string_chars(1, ret_name).res
                      IN  IF IsErr(n) THEN n
                          ELSE IF ~IsOk(chars) THEN chars
                          ELSE IF id = NULL
                          THEN Err(Error_new("Could not find method ID", JNI_ERR))
                          ELSE JMethodID_new(id, from_name(chars.val), n.val)

\* JNIEnv::from_reflected_field, with ty_name the code units of
\* getType().getName().
from_reflected_field(id, ty_name) ==
    LET get_ty   == unwrap(get_method_id(FALSE, <<"(", ")", " ", "-", ">", " ", "j", "a", "v", "a", ".", "l", "a", "n", "g", ".", "C", "l", "a", "s", "s">>, 1).res)
        get_name == unwrap(get_method_id(FALSE, <<"(", ")", " ", "-", ">", " ", "j", "a", "v", "a", ".", "l", "a", "n", "g", ".", "S", "t", "r", "i", "n", "g">>, 1).res)
    IN  IF IsPanic(get_ty) THEN get_ty
        ELSE IF IsPanic(get_name) THEN get_name
        ELSE LET ty_cls == reflective_obj(call_method(get_ty.val, 0, 1, FALSE))
                 ty_nm  == reflective_obj(call_method(get_name.val, 0, 1, FALSE))
                 chars  == get_string_chars(1, ty_name).res
             IN  IF ~IsOk(ty_cls) THEN ty_cls
                 ELSE IF ~IsOk(ty_nm) THEN ty_nm
                 ELSE IF ~IsOk(chars) THEN chars
                 ELSE IF as_nonvoid(from_name(chars.val)) = None
                 THEN Panic("called Option::unwrap() on a None value")
                 ELSE IF id = NULL
                 THEN Err(Error_new("Could not find field ID", JNI_ERR))
                 ELSE JFieldID_new(id, as_nonvoid(from_name(chars.val))[1])

\* JNIEnv::to_reflected_method, given the object the raw entry returns.
to_reflected_method(obj) ==
    IF obj = NULL THEN Err(Error_new("Could not find reflected method", JNI_ERR))
    ELSE smart_new("JObject", obj)

\* JNIEnv::to_reflected_field
to_reflected_field(obj) ==
    IF obj = NULL THEN Err(Error_new("Could not find reflected field", JNI_ERR))
    ELSE smart_new("JObject", obj)

Reflected(op, from, sig, id, obj, res) ==
    [op |-> op, from |-> from, sig |-> sig, id |-> id, obj |-> obj, res |-> res]

LookupOthers ==
    <<valueVars, dispatchVars, castVars, arrayVars, codeVars, mangleVars,
      excVars, strVars>>

\* The member just found is turned into its reflective object; the runtime
\* may fail to allocate one.
ToReflectedMethod ==
    /\ lookup.op \in {"get_method_id", "get_static_method_id"}
    /\ IsOk(lookup.res)
    /\ \E obj \in 0..MaxPtr :
         reflected' = Reflected("to_reflected_method", lookup.op,
                                lookup.raw[1].sig, lookup.res.val, obj,
                                to_reflected_method(obj))
    /\ UNCHANGED <<lookup, LookupOthers>>

ToReflectedField ==
    /\ lookup.op \in {"get_field_id", "get_static_field_id"}
    /\ IsOk(lookup.res)
    /\ \E obj \in 0..MaxPtr :
         reflected' = Reflected("to_reflected_field", lookup.op,
                                lookup.raw[1].sig, lookup.res.val, obj,
                                to_reflected_field(obj))
    /\ UNCHANGED <<lookup, LookupOthers>>

\* The reflective object is turned back into an id: the runtime returns the
\* token of the member the object stands for and answers the reflective
\* calls from the member's descriptor.
FromReflectedMethod ==
    /\ reflected.op = "to_reflected_method"
    /\ IsOk(reflected.res)
    /\ reflected' =
         [reflected EXCEPT
            !.op = "from_reflected_method",
            !.res = from_reflected_method(
                        reflected.id.real_id,
                        Units(getName(BinaryType(reflected.sig))),
                        getParameterCount(reflected.sig))]
    /\ UNCHANGED <<lookup, LookupOthers>>

FromReflectedField ==
    /\ reflected.op = "to_reflected_field"
    /\ IsOk(reflected.res)
    /\ reflected' =
         [reflected EXCEPT
            !.op = "from_reflected_field",
            !.res = from_reflected_field(
                        reflected.id.real_id,
                        Units(getName(BinaryType(reflected.sig))))]
    /\ UNCHANGED <<lookup, LookupOthers>>

LookupNext ==
    \/ WriteDescriptor
    \/ GetMethodID
    \/ GetStaticMethodID
    \/ GetFieldID
    \/ GetStaticFieldID
    \/ ToReflectedMethod
    \/ ToReflectedField
    \/ FromReflectedMethod
    \/ FromReflectedField

SpecLookup == LookupInit /\ [][LookupNext]_vars

MethodLookups == {"get_method_id", "get_static_method_id"}

FieldLookups == {"get_field_id", "get_static_field_id"}

\* C12: get_method_id and get_static_method_id, given a primitive, class or
\* array descriptor, return Err without invoking the raw lookup entry; the
\* error is "Expected method signature" (code JNI_ERR) whenever the member
\* name itself converts to a C string.
C12_MethodShapeRequired ==
    (lookup.op \in MethodLookups /\ lookup.desc.shape = "type") =>
        /\ IsErr(lookup.res)
        /\ lookup.raw = <<>>
        /\ ~lookup.name_has_nul =>
              /\ lookup.res.err.variant = "General"
              /\ lookup.res.err.msg = "Expected method signature"
              /\ lookup.res.err.code = JNI_ERR

\* get_static_method_id was given "java.lang.String[]" and refused it.
C12_Witness ==
    /\ lookup.op = "get_static_method_id"
    /\ lookup.desc.shape = "type"
    /\ Text(lookup.desc) = <<"j", "a", "v", "a", ".", "l", "a", "n", "g", ".", "S", "t", "r", "i", "n", "g", "[", "]">>
    /\ ~lookup.name_has_nul
    /\ lookup.id # NULL
    /\ IsErr(lookup.res)
    /\ lookup.raw = <<>>

\* C13: get_field_id and get_static_field_id, given a method-shaped
\* descriptor or "void", return a structured Err (no panic) and do not
\* invoke the raw lookup entry.
C13_FieldShapeRequired ==
    (/\ lookup.op \in FieldLookups
     /\ \/ lookup.desc.shape = "method"
        \/ Text(lookup.desc) = <<"v", "o", "i", "d">>) =>
        /\ IsErr(lookup.res)
        /\ lookup.raw = <<>>

\* C14: a successful get_method_id / get_static_method_id on the descriptor
\* "(A1, ..., An) -> R" gives a MethodID with parameter count n and return
\* kind KindOf(R), an empty parameter list written "()" or "( )" included.
C14_MethodMetadata ==
    (/\ lookup.op \in MethodLookups
     /\ lookup.desc.shape = "method"
     /\ IsOk(lookup.res)) =>
        /\ lookup.res.val.num_args = Len(lookup.desc.params)
        /\ lookup.res.val.ret_type = KindOf(lookup.desc.ret)

---------------------------------------------------------------------------
(* Specification SpecMangle: a descriptor is written, parsed with          *)
(* mangle_class and rendered with mangled().                               *)

\* Strings outside the descriptor grammar: the empty string, an array of
\* nothing, a method without "->", without ")", with an empty argument and
\* with an empty return type.
Malformed ==
    { <<>>,
      <<"[", "]">>,
      <<"(", "i", "n", "t", ",", " ", "l", "o", "n", "g", ")">>,
      <<"(", "i", "n", "t", " ", "-", ">", " ", "v", "o", "i", "d">>,
      <<"(", "i", "n", "t", ",", ",", "l", "o", "n", "g", ")", " ", "-", ">", " ", "v", "o", "i", "d">>,
      <<"(", "i", "n", "t", ")", " ", "-", ">">> }

MalformedDesc(text) ==
    [shape |-> "malformed", params |-> <<>>, ret |-> Type(text, 0), pad |-> <<>>]

MangleInputs == LookupDescs \cup {MalformedDesc(text) : text \in Malformed}

GivenText(d) == IF d.shape = "malformed" THEN d.ret.base ELSE Text(d)

WrittenText(d) == [op |-> "none", desc |-> d, parsed |-> Ok("()"), out |-> <<>>]

MangleInit ==
    /\ \E d \in MangleInputs : mangleOp = WrittenText(d)
    /\ ValueIdle /\ DispatchIdle /\ CastIdle /\ ArrayIdle
    /\ CodeIdle /\ ExcIdle /\ StrIdle /\ LookupIdle

\* The caller writes another descriptor.
WriteText ==
    /\ \E d \in MangleInputs : mangleOp' = WrittenText(d)
    /\ UNCHANGED <<valueVars, dispatchVars, castVars, arrayVars, codeVars,
                   lookupVars,
                 excVars, strVars>>

\* mangle_class(text)
MangleClass ==
    /\ mangleOp' = [mangleOp EXCEPT !.op = "mangle_class",
                                    !.parsed = mangle_class(GivenText(mangleOp.desc)),
                                    !.out = <<>>]
    /\ UNCHANGED <<valueVars, dispatchVars, castVars, arrayVars, codeVars,
                   lookupVars,
                 excVars, strVars>>

\* sig.mangled() on the signature mangle_class returned.
Mangled ==
    /\ mangleOp.op = "mangle_class"
    /\ IsOk(mangleOp.parsed)
    /\ mangleOp' = [mangleOp EXCEPT !.op = "mangled",
                                    !.out = mangled(mangleOp.parsed.val)]
    /\ UNCHANGED <<valueVars, dispatchVars, castVars, arrayVars, codeVars,
                   lookupVars,
                 excVars, strVars>>

MangleNext ==
    \/ WriteText
    \/ MangleClass
    \/ Mangled

SpecMangle == MangleInit /\ [][MangleNext]_vars

\* C15: mangle_class panics on every string outside the descriptor grammar.
C15_MalformedPanics ==
    (mangleOp.op # "none" /\ mangleOp.desc.shape = "malformed") =>
        IsPanic(mangleOp.parsed)

\* The single-letter code of each primitive name.
Code(P) ==
    CASE P = <<"b", "o", "o", "l", "e", "a", "n">> -> <<"Z">>
      [] P = <<"b", "y", "t", "e">>    -> <<"B">>
      [] P = <<"c", "h", "a", "r">>    -> <<"C">>
      [] P = <<"s", "h", "o", "r", "t">>   -> <<"S">>
      [] P = <<"i", "n", "t">>     -> <<"I">>
      [] P = <<"l", "o", "n", "g">>    -> <<"J">>
      [] P = <<"f", "l", "o", "a", "t">>   -> <<"F">>
      [] P = <<"d", "o", "u", "b", "l", "e">>  -> <<"D">>
      [] P = <<"v", "o", "i", "d">>    -> <<"V">>

\* C16: for every primitive name P, mangle_class(P).mangled() is P's
\* single-letter code and mangle_class(P + "[]").mangled() is "[" followed
\* by that code.
C16_PrimitiveCodes ==
    (/\ mangleOp.op = "mangled"
     /\ mangleOp.desc.shape = "type"
     /\ mangleOp.desc.ret.base \in PrimitiveNames
     /\ mangleOp.desc.ret.depth <= 1) =>
        mangleOp.out = IF mangleOp.desc.ret.depth = 0
                       THEN Code(mangleOp.desc.ret.base)
                       ELSE <<"[">> \o Code(mangleOp.desc.ret.base)

\* "long[]" was parsed and rendered as "[J".
C16_Witness ==
    /\ mangleOp.op = "mangled"
    /\ mangleOp.desc.shape = "type"
    /\ mangleOp.desc.ret = Type(<<"l", "o", "n", "g">>, 1)
    /\ mangleOp.out = <<"[", "J">>

\* depth "[" characters.
RECURSIVE Brackets(_)
Brackets(k) == IF k = 0 THEN <<>> ELSE <<"[">> \o Brackets(k - 1)

\* The binary name of a class: its dots written as slashes.
Slashed(N) == [i \in 1..Len(N) |-> IF N[i] = "." THEN "/" ELSE N[i]]

\* The binary descriptor of a type, from its structure.
Binary(t) ==
    Brackets(t.depth) \o
        (IF t.base \in PrimitiveNames THEN Code(t.base)
         ELSE <<"L">> \o Slashed(t.base) \o <<";">>)

RECURSIVE BinaryAll(_)
BinaryAll(ps) == IF ps = <<>> THEN <<>> ELSE Binary(Head(ps)) \o BinaryAll(Tail(ps))

\* C17: mangle_class("(A1, ..., An) -> C").mangled(), n >= 0, is "(" followed
\* by the mangled forms of A1..An in their written order, ")" and the
\* mangled form of C.
C17_MethodMangled ==
    (/\ mangleOp.op = "mangled"
     /\ mangleOp.desc.shape = "method"
     /\ mangleOp.desc.pad = <<>>) =>
        mangleOp.out = <<"(">> \o BinaryAll(mangleOp.desc.params) \o <<")">>
                           \o Binary(mangleOp.desc.ret)

\* A method of two different parameters was rendered, both in order.
C17_Witness ==
    /\ mangleOp.op = "mangled"
    /\ mangleOp.desc.shape = "method"
    /\ mangleOp.desc.pad = <<>>
    /\ Len(mangleOp.desc.params) = 2
    /\ mangleOp.desc.params[1] # mangleOp.desc.params[2]
    /\ mangleOp.desc.ret.base \in ClassNames
    /\ mangleOp.out # <<>>

\* k Array nodes around a signature.
RECURSIVE Nested(_, _)
Nested(k, sig) == IF k = 0 THEN sig ELSE Array(Nested(k - 1, sig))

---------------------------------------------------------------------------
(* The exception lifecycle  (src/src/env.rs, throw .. fatal_error) *)

\* The runtime hands out references; two references can name one object.
\* References 2k-1 and 2k name object k, NULL names none.
Referent(ref) == (ref + 1) \div 2

Refs == 1..(2 * MaxPtr)

\* The references the raw exception_occurred entry can return: NULL when
\* nothing is pending, else any reference to the pending throwable.
RawExceptionOccurred(pending_obj) ==
    IF pending_obj = NULL THEN {NULL}
    ELSE {r \in Refs : Referent(r) = pending_obj}

exception_occurred_none(exc_ref) ==
    Err(Error_new("No active exception to retrieve", JNI_ERR))

\* JNIEnv::exception_occurred, given the reference the raw entry returned.
exception_occurred(exc_ref) ==
    IF exc_ref = NULL
    THEN Err(Error_new("No active exception to retrieve", JNI_ERR))
    ELSE smart_new("JThrowable", exc_ref)

\* JNIEnv::exception_describe
exception_describe(pending) ==
    IF exception_check(pending)
    THEN [raw |-> <<"exception_check", "exception_describe">>, res |-> Ok("()")]
    ELSE [raw |-> <<"exception_check">>,
          res |-> Err(Error_new("No active exception to describe", JNI_ERR))]

\* JNIEnv::is_same_object passes both references to the runtime's identity
\* query.
is_same_object(obj1, obj2) ==
    Referent(obj1.backing_ptr) = Referent(obj2.backing_ptr)

\* The outcome of a call that does not come back.
NoReturn == [status |-> "NoReturn", val |-> "!"]

\* JNIEnv::fatal_error
fatal_error(msg_has_nul) ==
    LET c_msg == cstr_from_str(msg_has_nul)
    IN  IF IsErr(c_msg) THEN [raw |-> <<>>, res |-> c_msg]
        ELSE [raw |-> <<"fatal_error">>, res |-> NoReturn]

\* Whether a raw entry is among those an operation invoked.
Invoked(raw, entry) == \E i \in DOMAIN raw : raw[i] = entry

ExcInit == ValueIdle /\ DispatchIdle /\ CastIdle /\ ArrayIdle
    /\ CodeIdle /\ ExcIdle /\ StrIdle /\ LookupIdle /\ MangleIdle

ExcDone(op, arg, out) ==
    [op |-> op, arg |-> arg, before |-> occurred, raw |-> out.raw,
     res |-> out.res]

\* Nothing runs after the runtime has taken a fatal error.
Running == excOp.res.status # "NoReturn"

ExcOthers ==
    <<valueVars, dispatchVars, castVars, arrayVars, codeVars, lookupVars,
      mangleVars, strVars>>

\* throw(exception): the runtime makes the object pending when it accepts it.
ExcThrow ==
    /\ Running
    /\ \E e \in Refs, code \in ResultCodes :
         /\ excOp' = ExcDone("throw", e, throw(code))
         /\ occurred' = IF code = JNI_OK THEN Referent(e) ELSE occurred
    /\ UNCHANGED ExcOthers

\* throw_new(cls, msg): the runtime builds the throwable; made is a reference
\* to it.
ExcThrowNew ==
    /\ Running
    /\ \E made \in Refs, msg_has_nul \in BOOLEAN, code \in ResultCodes :
         LET out == throw_new(msg_has_nul, code)
         IN  /\ excOp' = ExcDone("throw_new", made, out)
             /\ occurred' = IF out.raw # <<>> /\ code = JNI_OK
                            THEN Referent(made) ELSE occurred
    /\ UNCHANGED ExcOthers

ExcCheck ==
    /\ Running
    /\ excOp' = ExcDone("exception_check", NULL,
                        [raw |-> <<"exception_check">>,
                         res |-> Ok(exception_check(occurred # NULL))])
    /\ UNCHANGED <<occurred, ExcOthers>>

ExcOccurred ==
    /\ Running
    /\ \E exc_ref \in RawExceptionOccurred(occurred) :
         excOp' = ExcDone("exception_occurred", NULL,
                          [raw |-> <<"exception_occurred">>,
                           res |-> exception_occurred(exc_ref)])
    /\ UNCHANGED <<occurred, ExcOthers>>

\* The runtime may drop the pending exception once it has printed it.
ExcDescribe ==
    /\ Running
    /\ LET out == exception_describe(occurred # NULL)
       IN  /\ excOp' = ExcDone("exception_describe", NULL, out)
           /\ occurred' \in IF Invoked(out.raw, "exception_describe")
                            THEN {occurred, NULL} ELSE {occurred}
    /\ UNCHANGED ExcOthers

ExcClear ==
    /\ Running
    /\ LET out == exception_clear(occurred # NULL)
       IN  /\ excOp' = ExcDone("exception_clear", NULL, out)
           /\ occurred' = IF Invoked(out.raw, "exception_clear")
                          THEN NULL ELSE occurred
    /\ UNCHANGED ExcOthers

\* is_same_object(obj1, obj2) on two references the caller holds.
ExcIsSameObject ==
    /\ Running
    /\ \E obj1 \in Refs, obj2 \in Refs :
         excOp' = ExcDone("is_same_object", obj1,
                          [raw |-> <<"is_same_object">>,
                           res |-> Ok(is_same_object(Handle("JObject", obj1),
                                                     Handle("JObject", obj2)))])
    /\ UNCHANGED <<occurred, ExcOthers>>

FatalError ==
    /\ Running
    /\ \E msg_has_nul \in BOOLEAN :
         excOp' = ExcDone("fatal_error", NULL, fatal_error(msg_has_nul))
    /\ UNCHANGED <<occurred, ExcOthers>>

ExcNext ==
    \/ ExcThrow
    \/ ExcThrowNew
    \/ ExcCheck
    \/ ExcOccurred
    \/ ExcDescribe
    \/ ExcClear
    \/ ExcIsSameObject
    \/ FatalError

SpecException == ExcInit /\ [][ExcNext]_vars

\* C21: after a successful throw or throw_new the pending flag is set and
\* exception_occurred gives a handle to the very object thrown, whichever
\* reference the runtime returns; after a successful exception_clear the flag
\* is unset; exception_clear and exception_describe with nothing pending
\* return Err, call neither raw entry and leave the pending state as it was.
C21_ExceptionLifecycle ==
    /\ (excOp.op \in {"throw", "throw_new"} /\ IsOk(excOp.res)) =>
          /\ exception_check(occurred # NULL)
          /\ \A exc_ref \in RawExceptionOccurred(occurred) :
               LET got == exception_occurred(exc_ref)
               IN  /\ IsOk(got)
                   /\ is_same_object(got.val, Handle("JThrowable", excOp.arg))
    /\ (excOp.op = "exception_clear" /\ IsOk(excOp.res)) =>
          ~exception_check(occurred # NULL)
    /\ (excOp.op \in {"exception_clear", "exception_describe"}
          /\ excOp.before = NULL) =>
          /\ IsErr(excOp.res)
          /\ excOp.raw = <<"exception_check">>
          /\ occurred = excOp.before

\* A throwable was thrown over another pending one and is now the one pending.
C21_Witness ==
    /\ excOp.op = "throw"
    /\ IsOk(excOp.res)
    /\ excOp.before # NULL
    /\ excOp.before # occurred
    /\ occurred = Referent(excOp.arg)

\* C22: fatal_error invokes the runtime's fatal-error entry for every message
\* and returns nothing to its caller.
C22_FatalErrorOneWay ==
    excOp.op = "fatal_error" =>
        /\ excOp.raw = <<"fatal_error">>
        /\ excOp.res = NoReturn

\* C23: converting the reflective object of a found method back gives a
\* MethodID equal to the one it was made from (token, return kind and
\* parameter count), and converting the reflective object of a found field
\* back gives a FieldID equal to the one it was made from (token and kind).
C23_ReflectionRoundTrip ==
    (reflected.op \in {"from_reflected_method", "from_reflected_field"}) =>
        /\ IsOk(reflected.res)
        /\ reflected.res.val = reflected.id

\* A method of two parameters returning void, found by get_method_id, has
\* gone through its reflective object and back.
C23_Witness ==
    /\ reflected.op = "from_reflected_method"
    /\ reflected.from = "get_method_id"
    /\ reflected.sig = <<"(", "I", "L", "j", "a", "v", "a", "/", "l", "a", "n", "g", "/", "S", "t", "r", "i", "n", "g", ";", ")", "V">>
    /\ reflected.id.num_args = 2
    /\ reflected.id.ret_type = "Void"
    /\ IsOk(reflected.res)

\* C24: the held view get_native_array_elements returns carries a copy flag
\* equal to the is_copy value the raw entry wrote for the buffer behind it.
C24_CopyFlagExposed ==
    (arrOp.op = "get_native_array_elements" /\ IsOk(arrOp.res)) =>
        /\ "is_copy" \in DOMAIN arrOp.res.val
        /\ arrOp.res.val.is_copy = bufs[arrOp.res.val.ptr].is_copy

\* C28: set_native_array_region asked for more elements than the vector
\* holds returns Err without a raw call.
C28_RegionSetBounded ==
    (arrOp.op = "set_native_array_region" /\ arrOp.len > Len(arrOp.data)) =>
        /\ IsErr(arrOp.res)
        /\ arrOp.raw = <<>>

\* C25: set_field and set_static_field given a value whose arm is not the
\* one of the kind recorded in the FieldID return a type-mismatch Err (code
\* JNI_ERR) and invoke no raw entry, so nothing is stored in the field.
C25_SetArmChecked ==
    (last.op \in SetOps /\ last.arg # ArmOfKind(last.kind)) =>
        /\ IsErr(last.res)
        /\ last.res.err.variant = "General"
        /\ last.res.err.code = JNI_ERR
        /\ last.raw = <<>>

\* set_static_field refused a Bool for an Int field.
C25_Witness ==
    /\ last.op = "set_static_field"
    /\ last.kind = "Int"
    /\ last.arg = "Bool"
    /\ IsErr(last.res)
    /\ last.raw = <<>>

\* C26: call_method, call_nonvirtual_method and call_static_method given a
\* number of arguments other than the MethodID's parameter count return Err
\* and invoke no raw entry; a raw entry is invoked only when the counts agree.
C26_ArityGuard ==
    last.op \in CallOps =>
        /\ last.given # last.num_args =>
              /\ IsErr(last.res)
              /\ last.raw = <<>>
        /\ last.raw # <<>> => last.given = last.num_args

\* call_nonvirtual_method refused two arguments for a method of one.
C26_Witness ==
    /\ last.op = "call_nonvirtual_method"
    /\ last.num_args = 1
    /\ last.given = 2
    /\ IsErr(last.res)
    /\ last.raw = <<>>

\* C27: new_object given a number of arguments other than the MethodID's
\* parameter count returns Err and does not invoke the raw constructor entry.
C27_NewObjectArityGuard ==
    last.op = "new_object" =>
        /\ last.given # last.num_args =>
              /\ IsErr(last.res)
              /\ last.raw = <<>>
        /\ last.raw # <<>> => last.given = last.num_args

\* C29: whatever 16-bit code unit the raw entry of a char-kind call or field
\* read returns, the operation does not panic, and with no exception pending
\* it is Ok with a Char of that code.
C29_EveryCodeUnitIsChar ==
    (/\ last.op \in CallOps \cup GetOps
     /\ last.kind = "Char"
     /\ last.raw # <<>>) =>
        /\ ~IsPanic(last.res)
        /\ ~last.pending =>
              /\ IsOk(last.res)
              /\ LET v == IF last.op \in GetOps THEN last.res.val
                          ELSE last.res.val[1]
                 IN  v.arm = "Char" /\ v.val = last.result

---------------------------------------------------------------------------
(* Specification SpecString: strings of any code units are read, and the   *)
(* runtime either hands out a buffer or does not.                          *)

\* The longest string read.
MaxUnits == 2

\* UTF-16 code units of a string: a letter and both ends of the surrogate
\* range.
StringUnits == {65, 55296, 57343}

\* Modified UTF-8 bytes of a string: a letter and the bytes that encode a
\* surrogate.
StringBytes == {65, 237, 160}

SeqsUpTo(S, n) == UNION {[1..k -> S] : k \in 0..n}

StrInit == ValueIdle /\ DispatchIdle /\ CastIdle /\ ArrayIdle
    /\ CodeIdle /\ ExcIdle /\ StrIdle /\ LookupIdle /\ MangleIdle

StrDone(op, str, units, buf, out) ==
    [op |-> op, str |-> str, units |-> units, buf |-> buf, raw |-> out.raw,
     res |-> out.res]

StrOthers ==
    <<valueVars, dispatchVars, castVars, arrayVars, codeVars, lookupVars,
      mangleVars, excVars>>

\* str is the string's pointer, chars the buffer the raw entry returns.
GetStringChars ==
    /\ \E str \in 1..MaxPtr, chars \in 0..MaxPtr,
          units \in SeqsUpTo(StringUnits, MaxUnits) :
         strOp' = StrDone("get_string_chars", str, units, chars,
                          get_string_chars(chars, units))
    /\ UNCHANGED StrOthers

GetStringUTFChars ==
    /\ \E str \in 1..MaxPtr, chars \in 0..MaxPtr,
          bytes \in SeqsUpTo(StringBytes, MaxUnits) :
         strOp' = StrDone("get_string_utf_chars", str, bytes, chars,
                          get_string_utf_chars(chars, bytes))
    /\ UNCHANGED StrOthers

StrNext ==
    \/ GetStringChars
    \/ GetStringUTFChars

SpecString == StrInit /\ [][StrNext]_vars

\* The number of times an operation invoked a raw entry.
TimesInvoked(raw, entry) == Cardinality({i \in DOMAIN raw : raw[i] = entry})

\* C30: a string read that got a non-null buffer has released it exactly
\* once when it is over, however it ends; one that got the null pointer is
\* an Err and released nothing.
C30_BufferReleasedOnce ==
    strOp.op # "none" =>
        LET releases == TimesInvoked(strOp.raw, "release_string_chars")
                          + TimesInvoked(strOp.raw, "release_string_utf_chars")
        IN  IF strOp.buf = NULL
            THEN IsErr(strOp.res) /\ releases = 0
            ELSE releases = 1

=============================================================================
